---- MODULE Spec2Model ----
(***************************************************************************)
(* A model of the Obsidian "Redirect" plugin (src/main.ts).                *)
(*                                                                         *)
(* Strings are sequences of one-character strings, so that the string      *)
(* operations of the code (toLowerCase, split, contains, substring,        *)
(* lastIndexOf, template literals) are computed and not assumed.           *)
(* A TFile is identified by its path (the vault holds one TFile object     *)
(* per path, so === on TFiles is equality of paths).                       *)
(***************************************************************************)
EXTENDS Integers, Sequences, FiniteSets, TLC

VARIABLES
    files,          \* app.vault.getFiles() with the metadata cache's front matter
    settings,       \* RedirectPlugin.settings
    hostNonString,  \* what the host's link resolver does with a non-string link path
    triggerString,  \* RedirectEditorSuggester.triggerString (copied at construction)
    line,           \* the edited line of the editor's buffer
    cursor,         \* the cursor's offset in that line
    context,        \* EditorSuggest.context, as set from onTrigger's result
    suggestions,    \* the list last returned by getSuggestions and shown
    modal,          \* the open FilePathModal, if any
    opened,         \* what workspace.getLeaf().openFile was last asked to open
    lastEdit,       \* the last change of the buffer: what made it, and the line before
    lastCall,       \* the plugin callback that ran last
    raised,         \* an exception escaped a callback of the plugin
    aliasPrompt,    \* the AliasPromptModal and its submitAlias invocations
    disk,           \* the content on disk of the document the alias prompt is for
    statusBar,      \* the plugin's status bar item, if it has one
    adapter,        \* app.vault.adapter: desktop file system or not, its base path
    uiEvent,        \* the last click or drop event the plugin's handlers were given
    dispatch        \* the handleFilesWithModal call of the last event's handler

\* The variables of the alias prompt, the status bar and the drop handler.
extraVars == <<aliasPrompt, disk, statusBar, adapter, uiEvent, dispatch>>

vars == <<files, settings, hostNonString, triggerString, line, cursor,
          context, suggestions, modal, opened, lastEdit, lastCall, raised,
          aliasPrompt, disk, statusBar, adapter, uiEvent, dispatch>>

-----------------------------------------------------------------------------
(* Strings                                                                 *)

\* String.prototype.toLowerCase, on the letters the model uses.
toLowerCaseChar(c) ==
    CASE c = "A" -> "a" [] c = "B" -> "b" [] c = "C" -> "c" [] c = "D" -> "d"
      [] c = "G" -> "g" [] c = "H" -> "h" [] c = "I" -> "i" [] c = "J" -> "j"
      [] c = "M" -> "m" [] c = "N" -> "n" [] c = "O" -> "o" [] c = "P" -> "p"
      [] c = "T" -> "t" [] c = "X" -> "x" [] OTHER -> c

toLowerCase(s) == [i \in 1..Len(s) |-> toLowerCaseChar(s[i])]

\* The characters the regular expression class \s matches.
IsWhitespace(c) == c \in {" ", "\t"}

\* s.substring(a, b) for 0 <= a, b: the characters at offsets a .. b-1.
substring(s, a, b) ==
    LET lo == IF a < b THEN a ELSE b
        hi == IF a < b THEN b ELSE a
        l  == IF lo > Len(s) THEN Len(s) ELSE lo
        h  == IF hi > Len(s) THEN Len(s) ELSE hi
    IN SubSeq(s, l + 1, h)

\* Does w start at offset i of s?
OccursAt(s, w, i) ==
    /\ i >= 0
    /\ i + Len(w) <= Len(s)
    /\ SubSeq(s, i + 1, i + Len(w)) = w

\* Obsidian's String.prototype.contains (= includes).
contains(s, w) == \E i \in 0..Len(s) : OccursAt(s, w, i)

\* s.indexOf(w): the first offset, -1 when there is none.
indexOf(s, w) ==
    IF contains(s, w)
    THEN CHOOSE i \in 0..Len(s) :
            OccursAt(s, w, i) /\ \A j \in 0..(i - 1) : ~OccursAt(s, w, j)
    ELSE -1

\* s.lastIndexOf(w): the last offset, -1 when there is none.
lastIndexOf(s, w) ==
    IF contains(s, w)
    THEN CHOOSE i \in 0..Len(s) :
            OccursAt(s, w, i) /\ \A j \in (i + 1)..Len(s) : ~OccursAt(s, w, j)
    ELSE -1

\* "]".repeat(n)
repeat(c, n) == [i \in 1..n |-> c]

RECURSIVE SplitFrom(_, _, _, _)
\* Scan s from position i: cur is the token being read, inRun tells that the
\* previous character belonged to a separator run (already closed a token).
SplitFrom(s, i, cur, inRun) ==
    IF i > Len(s) THEN <<cur>>
    ELSE IF IsWhitespace(s[i])
         THEN IF inRun THEN SplitFrom(s, i + 1, <<>>, TRUE)
              ELSE <<cur>> \o SplitFrom(s, i + 1, <<>>, TRUE)
         ELSE SplitFrom(s, i + 1, Append(cur, s[i]), FALSE)

\* s.split(/\s{1,}/): the pieces between runs of whitespace; a leading or a
\* trailing run yields an empty piece, and "" yields [""].
splitWhitespace(s) == SplitFrom(s, 1, <<>>, FALSE)

\* s.split(".").pop(): the text after the last ".", all of s when it has none.
splitDotPop(s) ==
    LET dots == {i \in 1..Len(s) : s[i] = "."}
    IN IF dots = {} THEN s
       ELSE LET last == CHOOSE i \in dots : \A j \in dots : j <= i
            IN SubSeq(s, last + 1, Len(s))

\* Array.prototype.flat (one level) of a sequence of sequences.
RECURSIVE flat(_)
flat(ss) == IF ss = <<>> THEN <<>> ELSE Head(ss) \o flat(Tail(ss))

-----------------------------------------------------------------------------
(* Front matter values, as the YAML parser hands them over                 *)

\* A member of a YAML value: a string, null, or a non-string scalar (a number;
\* s is then its decimal text, which is what a template literal prints).
Str(s) == [t |-> "str", s |-> s]
Null   == [t |-> "null", s |-> <<>>]
Num(s) == [t |-> "num", s |-> s]

\* The value of a front-matter key: absent (undefined), a scalar, or a sequence.
Absent     == [k |-> "absent", ms |-> <<>>]
Scalar(m)  == [k |-> "scalar", ms |-> <<m>>]
Array(ms)  == [k |-> "seq", ms |-> ms]

\* JavaScript truthiness of a value, as the || operator tests it.
Truthy(v) ==
    CASE v.k = "absent" -> FALSE
      [] v.k = "seq"    -> TRUE
      [] OTHER          ->
            LET m == v.ms[1]
            IN CASE m.t = "null" -> FALSE
                 [] m.t = "str"  -> m.s # <<>>
                 [] OTHER        -> m.s # <<"0">>

\* a || b || c
Or3(a, b, c) == IF Truthy(a) THEN a ELSE IF Truthy(b) THEN b ELSE c

\* Coerce without the filter of the null/undefined members.
CoerceKeepNull(v) ==
    IF v.k = "seq" THEN v.ms
    ELSE IF v.k = "scalar" /\ v.ms[1].t # "null" THEN v.ms
    ELSE <<>>

\* Coerce that takes a value that is not an array for the empty array.
CoerceDropScalar(v) ==
    LET arr == IF v.k = "seq" THEN v.ms ELSE <<>>
    IN SelectSeq(arr, LAMBDA m : m.t # "null")

\* if (!Array.isArray(v)) v = v != null ? [v] : []; then the null/undefined
\* members are filtered out.  The result is the sequence of members.
Coerce(v) ==
    LET arr == IF v.k = "seq" THEN v.ms
               ELSE IF v.k = "scalar" /\ v.ms[1].t # "null" THEN v.ms
               ELSE <<>>
    IN SelectSeq(arr, LAMBDA m : m.t # "null")

\* `${x}`: a string prints as itself, a number as its decimal text.
Template(m) == IF m.t = "null" THEN <<"n", "u", "l", "l">> ELSE m.s

\* No front matter at all (getFileCache(file)?.frontmatter is undefined).
NoFrontMatter ==
    [alias |-> Absent, aliases |-> Absent, redirect |-> Absent, redirects |-> Absent]

-----------------------------------------------------------------------------
(* The host: TFile fields, link resolution, resource paths                 *)

\* TFile.name: the path's last segment.
FileName(path) ==
    LET slashes == {i \in 1..Len(path) : path[i] = "/"}
    IN IF slashes = {} THEN path
       ELSE LET last == CHOOSE i \in slashes : \A j \in slashes : j <= i
            IN SubSeq(path, last + 1, Len(path))

\* TFile.extension: the text after the name's last ".", "" when it has none.
FileExtension(path) ==
    LET n == FileName(path)
    IN IF \E i \in 1..Len(n) : n[i] = "." THEN splitDotPop(n) ELSE <<>>

\* TFile.basename: the name without its extension.
FileBasename(path) ==
    LET n == FileName(path)
        e == FileExtension(path)
    IN IF \E i \in 1..Len(n) : n[i] = "." THEN SubSeq(n, 1, Len(n) - Len(e) - 1) ELSE n

DotMd == <<".", "m", "d">>

Paths(vault) == {vault[i].path : i \in 1..Len(vault)}

\* The first file of the vault, in its order, that satisfies Want.
FirstPath(vault, Want(_)) ==
    LET hits == {i \in 1..Len(vault) : Want(vault[i].path)}
    IN vault[CHOOSE i \in hits : \A j \in hits : i <= j].path

NoFile == [kind |-> "null", path |-> <<>>]
Found(p) == [kind |-> "file", path |-> p]
Throws == [kind |-> "raise", path |-> <<>>]

\* metadataCache.getFirstLinkpathDest(linkpath, sourcePath) for a string:
\* "" is the source file; an exact path wins; a link without extension names
\* a markdown file; otherwise the first file of that name anywhere wins.
ResolveText(vault, link, sourcePath) ==
    LET ps == Paths(vault)
        ByName(p) == FileName(p) = link \/ FileName(p) = link \o DotMd
    IN CASE link = <<>> ->
              IF sourcePath \in ps THEN Found(sourcePath) ELSE NoFile
         [] link # <<>> /\ link \in ps -> Found(link)
         [] link # <<>> /\ link \notin ps /\ (link \o DotMd) \in ps ->
              Found(link \o DotMd)
         [] OTHER ->
              IF \E p \in ps : ByName(p) THEN Found(FirstPath(vault, ByName))
              ELSE NoFile

\* The same call with whatever the front matter held.  What the host does with
\* a link path that is not a string is not the plugin's to decide: it returns
\* null, raises a TypeError, or coerces the value to text (host.nonString).
getFirstLinkpathDest(host, m, sourcePath) ==
    CASE m.t = "str" -> ResolveText(host.vault, m.s, sourcePath)
      [] m.t # "str" /\ host.nonString = "null"  -> NoFile
      [] m.t # "str" /\ host.nonString = "raise" -> Throws
      [] OTHER -> ResolveText(host.vault, Template(m), sourcePath)

\* vault.getResourcePath(file): a locator of the file.
getResourcePath(path) == <<"a", "p", "p", ":">> \o path

\* metadataCache.getFileCache(file)?.frontmatter
FrontMatterOf(vault, path) ==
    LET i == CHOOSE i \in 1..Len(vault) : vault[i].path = path IN vault[i].fm

-----------------------------------------------------------------------------
(* getRedirectFiles                                                        *)

\* The filterString parameter: not passed (undefined) or a string.
NoFilter      == [given |-> FALSE, s |-> <<>>]
FilterText(q) == [given |-> TRUE, s |-> q]

\* A SuggestionObject.
Suggestion(alias, redirect, path, dest) ==
    [alias        |-> Template(alias),
     path         |-> Template(redirect),
     originTFile  |-> path,
     embedPath    |-> getResourcePath(dest),
     isAlias      |-> ~(alias.t = "str" /\ alias.s = FileBasename(path)),
     extension    |-> splitDotPop(redirect.s),
     redirectTFile |-> dest]

\* What one step of the inner maps yields: a suggestion, null/undefined, or
\* an exception.
Hole == [kind |-> "hole", e |-> Suggestion(Null, Null, <<>>, <<>>)]
Thrown == [kind |-> "raise", e |-> Suggestion(Null, Null, <<>>, <<>>)]
Item(e) == [kind |-> "item", e |-> e]

\* let aliases = frontMatter?.alias || frontMatter?.aliases || [], coerced
\* to an array and without its null members.
AliasesOf(fm) == Coerce(Or3(fm.alias, fm.aliases, Array(<<>>)))

\* RedirectsOf with the singular key read first.
RedirectsOfSingularFirst(fm, path, limitToRedirectedFiles) ==
    Coerce(Or3(fm.redirect, fm.redirects,
               IF limitToRedirectedFiles THEN Array(<<>>)
               ELSE Array(<<Str(path)>>)))

\* let redirects = frontMatter?.redirects || frontMatter?.redirect ||
\* (limitToRedirectedFiles ? [] : [file.path]), coerced in the same way.
RedirectsOf(fm, path, limitToRedirectedFiles) ==
    Coerce(Or3(fm.redirects, fm.redirect,
               IF limitToRedirectedFiles THEN Array(<<>>)
               ELSE Array(<<Str(path)>>)))

\* ResolveOne without the test for a null redirectTFile.
ResolveOneKeepNull(host, alias, redirect, path) ==
    LET dest == getFirstLinkpathDest(host, redirect, path)
    IN CASE dest.kind = "raise" -> Thrown
         [] OTHER ->
              IF redirect.t # "str" THEN Thrown
              ELSE Item(Suggestion(alias, redirect, path, dest.path))

\* The body of the inner map: resolve one declared target for one alias.
\* redirect.split is a TypeError when redirect is not a string.
ResolveOne(host, alias, redirect, path) ==
    LET dest == getFirstLinkpathDest(host, redirect, path)
    IN CASE dest.kind = "raise" -> Thrown
         [] dest.kind = "null"  -> Hole
         [] OTHER ->
              IF redirect.t # "str" THEN Thrown
              ELSE Item(Suggestion(alias, redirect, path, dest.path))

\* ForAlias without the test for the empty alias.
ForAliasKeepEmpty(host, alias, redirects, path) ==
    [j \in 1..Len(redirects) |-> ResolveOne(host, alias, redirects[j], path)]

\* The body of the outer map: null for the empty alias, else one step per target.
ForAlias(host, alias, redirects, path) ==
    IF alias.t = "str" /\ alias.s = <<>> THEN <<Hole>>
    ELSE [j \in 1..Len(redirects) |-> ResolveOne(host, alias, redirects[j], path)]

\* MatchesFilter with some in place of every.
MatchesFilterAny(a, filterString) ==
    IF ~filterString.given \/ filterString.s = <<>> THEN TRUE
    ELSE LET queryWords == splitWhitespace(toLowerCase(filterString.s))
         IN \E w \in 1..Len(queryWords) :
               \/ contains(toLowerCase(a.alias), queryWords[w])
               \/ contains(toLowerCase(a.path), queryWords[w])

\* The query test of the filter callback.
MatchesFilter(a, filterString) ==
    IF ~filterString.given \/ filterString.s = <<>> THEN TRUE
    ELSE LET queryWords == splitWhitespace(toLowerCase(filterString.s))
         IN \A w \in 1..Len(queryWords) :
               \/ contains(toLowerCase(a.alias), queryWords[w])
               \/ contains(toLowerCase(a.path), queryWords[w])

\* KeepOutput without the test originTFile === redirectTFile.
KeepOutputNoSelf(c, filterString) ==
    /\ c.kind = "item"
    /\ MatchesFilter(c.e, filterString)

\* The filter callback applied to the flattened output of one file.
KeepOutput(c, filterString) ==
    /\ c.kind = "item"
    /\ c.e.originTFile # c.e.redirectTFile
    /\ MatchesFilter(c.e, filterString)

\* RawOutput with file.basename ahead of the declared aliases.
RawOutputBasenameFirst(host, file, limitToRedirectedFiles) ==
    LET aliases   == AliasesOf(file.fm)
        redirects == RedirectsOf(file.fm, file.path, limitToRedirectedFiles)
        names     == <<Str(FileBasename(file.path))>> \o aliases
    IN flat([i \in 1..Len(names) |-> ForAlias(host, names[i], redirects, file.path)])

\* RawOutput over the declared aliases alone, file.basename left out.
RawOutputNoBasename(host, file, limitToRedirectedFiles) ==
    LET aliases   == AliasesOf(file.fm)
        redirects == RedirectsOf(file.fm, file.path, limitToRedirectedFiles)
    IN flat([i \in 1..Len(aliases) |-> ForAlias(host, aliases[i], redirects, file.path)])

\* [...aliases, file.basename].map(...).flat() of one file, before the filter.
RawOutput(host, file, limitToRedirectedFiles) ==
    LET aliases   == AliasesOf(file.fm)
        redirects == RedirectsOf(file.fm, file.path, limitToRedirectedFiles)
        names     == Append(aliases, Str(FileBasename(file.path)))
    IN flat([i \in 1..Len(names) |-> ForAlias(host, names[i], redirects, file.path)])

\* The callback of files.map: the kept suggestions of one file, or raised
\* when a step of its maps threw.
FileOutput(host, file, limitToRedirectedFiles, filterString) ==
    LET raw  == RawOutput(host, file, limitToRedirectedFiles)
        kept == SelectSeq(raw, LAMBDA c : KeepOutput(c, filterString))
    IN [raised |-> \E c \in 1..Len(raw) : raw[c].kind = "raise",
        list   |-> [i \in 1..Len(kept) |-> kept[i].e]]

\* redirect?.extension && !(redirect.extension === "md")
IsNonMarkdown(e) == e.extension # <<>> /\ e.extension # <<"m", "d">>

\* if (plugin.settings.limitToNonMarkdown) redirectsGathered = ...filter(...)
LimitToNonMarkdown(limit, list) ==
    IF limit THEN SelectSeq(list, IsNonMarkdown) ELSE list

\* getRedirectFiles(plugin, files, limitToRedirectedFiles, filterString):
\* plugin is [settings, host]; the result is the returned list, or raised.
getRedirectFiles(plugin, fs, limitToRedirectedFiles, filterString) ==
    LET outs == [i \in 1..Len(fs) |->
                    FileOutput(plugin.host, fs[i], limitToRedirectedFiles, filterString)]
        redirectsGathered == flat([i \in 1..Len(fs) |-> outs[i].list])
    IN IF \E i \in 1..Len(fs) : outs[i].raised
       THEN [raised |-> TRUE, list |-> <<>>]
       ELSE [raised |-> FALSE,
             list |-> LimitToNonMarkdown(plugin.settings.limitToNonMarkdown,
                                         redirectsGathered)]

-----------------------------------------------------------------------------
(* The trigger scanner                                                     *)

RegExpSpecial == {".", "*", "+", "?", "^", "$", "{", "}", "(", ")", "|", "[", "]", "\\"}

\* escapeRegExp: str.replace(/[.*+?^${}()|[\]\\]/g, "\\$&")
escapeRegExp(str) ==
    flat([i \in 1..Len(str) |->
            IF str[i] \in RegExpSpecial THEN <<"\\", str[i]>> ELSE <<str[i]>>])

RECURSIVE ParseRegExp(_, _)
\* new RegExp(pattern): the pattern as a sequence of one-character matchers.
\* "\c" matches c; "." matches any character; "[" opens a character class
\* that runs to the next "]" (a SyntaxError when there is none); any other
\* character matches itself.
ParseRegExp(p, i) ==
    IF i > Len(p) THEN [ok |-> TRUE, toks |-> <<>>]
    ELSE IF p[i] = "\\" THEN
            IF i = Len(p) THEN [ok |-> FALSE, toks |-> <<>>]
            ELSE LET rest == ParseRegExp(p, i + 2)
                 IN [ok |-> rest.ok, toks |-> <<{p[i + 1]}>> \o rest.toks]
    ELSE IF p[i] = "[" THEN
            LET closes == {j \in (i + 1)..Len(p) : p[j] = "]"}
            IN IF closes = {} THEN [ok |-> FALSE, toks |-> <<>>]
               ELSE LET j == CHOOSE c \in closes : \A d \in closes : c <= d
                        rest == ParseRegExp(p, j + 1)
                    IN [ok |-> rest.ok,
                        toks |-> <<{p[k] : k \in (i + 1)..(j - 1)}>> \o rest.toks]
    ELSE LET rest == ParseRegExp(p, i + 1)
         IN [ok |-> rest.ok,
             toks |-> <<IF p[i] = "." THEN {"any"} ELSE {p[i]}>> \o rest.toks]

\* Do the matchers toks match s at offset i?
MatchesAt(s, toks, i) ==
    /\ i + Len(toks) <= Len(s)
    /\ \A k \in 1..Len(toks) : toks[k] = {"any"} \/ s[i + k] \in toks[k]

\* s.match(new RegExp(pattern))?.first(): the text of the leftmost match,
\* undefined when there is none, or the RegExp constructor's SyntaxError.
matchFirst(s, pattern) ==
    LET re == ParseRegExp(pattern, 1)
        at == {i \in 0..Len(s) : MatchesAt(s, re.toks, i)}
    IN IF ~re.ok THEN [kind |-> "raise", text |-> <<>>]
       ELSE IF at = {} THEN [kind |-> "undefined", text |-> <<>>]
       ELSE LET i == CHOOSE a \in at : \A b \in at : a <= b
            IN [kind |-> "match", text |-> SubSeq(s, i + 1, i + Len(re.toks))]

\* triggerString.match(/\[{1,}$/)?.first(): the run of "[" that ends the
\* trigger string ("" stands for undefined: no such run).
closingBrackets(trigger) ==
    LET n == Len(trigger)
        runs == {k \in 1..n : \A j \in (n - k + 1)..n : trigger[j] = "["}
    IN IF runs = {} THEN <<>>
       ELSE repeat("[", CHOOSE k \in runs : \A l \in runs : l <= k)

\* editor.getRange(from, to) within the line.
getRange(text, from, to) == substring(text, from, to)

NoTrigger == [active |-> FALSE, start |-> 0, end |-> 0, query |-> <<>>]

\* The end offset of the trigger result.
TriggerEnd(text, ch, trigger) ==
    LET triggerStringClosingBrackets == closingBrackets(trigger)
    IN IF /\ triggerStringClosingBrackets # <<>>
          /\ Len(text) > ch
          /\ getRange(text, ch, ch + 1) = repeat("]", Len(triggerStringClosingBrackets))
       THEN ch + 1
       ELSE ch

\* TriggerStart with indexOf in place of lastIndexOf.
TriggerStartFirst(subString, match) == indexOf(subString, match)

\* The start offset of the trigger result.
TriggerStart(subString, match) == lastIndexOf(subString, match)

\* TriggerQuery without the trigger string's length added to the start.
TriggerQueryFromStart(subString, match, trigger) ==
    substring(subString, TriggerStart(subString, match), Len(subString))

\* The query of the trigger result.
TriggerQuery(subString, match, trigger) ==
    substring(subString, TriggerStart(subString, match) + Len(trigger), Len(subString))

\* The trigger result that onTrigger returns for a match.
TriggerInfo(text, ch, trigger, subString, match) ==
    [active |-> TRUE,
     start  |-> TriggerStart(subString, match),
     end    |-> TriggerEnd(text, ch, trigger),
     query  |-> TriggerQuery(subString, match, trigger)]

\* onTrigger without the test of the match: a result for every cursor.
onTriggerUnguarded(text, ch, trigger) ==
    LET subString == substring(text, 0, ch)
        match == matchFirst(subString, escapeRegExp(trigger))
    IN IF match.kind = "raise" THEN [raised |-> TRUE, info |-> NoTrigger]
       ELSE [raised |-> FALSE,
             info |-> TriggerInfo(text, ch, trigger, subString, match.text)]

\* RedirectEditorSuggester.onTrigger(cursor, editor, file) on one line:
\* [raised, info], info being NoTrigger when the function returns undefined.
onTrigger(text, ch, trigger) ==
    LET subString == substring(text, 0, ch)
        match == matchFirst(subString, escapeRegExp(trigger))
    IN IF match.kind = "raise" THEN [raised |-> TRUE, info |-> NoTrigger]
       ELSE IF match.kind = "match" /\ match.text # <<>>
       THEN [raised |-> FALSE,
             info |-> TriggerInfo(text, ch, trigger, subString, match.text)]
       ELSE [raised |-> FALSE, info |-> NoTrigger]

-----------------------------------------------------------------------------
(* Bounds, and the paths of the modelled vault                             *)

\* The most files a vault holds.
MaxFiles == 2
\* The longest line the trigger scanner is applied to.
MaxLine == 5
\* The longest line the user types in an editing session.
MaxTyped == 3

pA   == <<"A", ".", "m", "d">>
p7   == <<"7", ".", "m", "d">>
pX   == <<"i", "m", "g", "/", "x", ".", "p", "n", "g">>

\* A file whose extension ends with "md" and is not "md".
pR   == <<"n", ".", "r", "m", "d">>

MarkdownPaths == {pA, p7}
BinaryPaths == {pX}

-----------------------------------------------------------------------------
(* The plugin's callbacks, commands and modal                              *)

\* The plugin object as getRedirectFiles reads it: its settings, and through
\* plugin.app the vault and the metadata cache.
plugin == [settings |-> settings,
           host |-> [vault |-> files, nonString |-> hostNonString]]

\* RedirectEditorSuggester.getSuggestions(context)
getSuggestions(ctx) ==
    getRedirectFiles(plugin, files, settings.limitToRedirectedFiles,
                     FilterText(ctx.query))

\* String.prototype.endsWith
endsWith(s, w) == Len(w) <= Len(s) /\ SubSeq(s, Len(s) - Len(w) + 1, Len(s)) = w

\* FilePathModal's constructor: this.files = files, filtered when
\* limitToNonMarkdown by !file.extension.endsWith("md").
FilePathModalFiles(limitToNonMarkdown, list) ==
    IF limitToNonMarkdown
    THEN SelectSeq(list, LAMBDA f : ~endsWith(f.extension, <<"m", "d">>))
    ELSE list

\* this.newAlias before the text field's onChange has run.
Undefined == [t |-> "undef", s |-> <<>>]

\* No alias prompt is open and no submitAlias is under way.
NoPrompt ==
    [open |-> FALSE, file |-> <<>>, newAlias |-> Undefined, registered |-> FALSE,
     calls |-> <<>>]

\* A file's content as yamlFront parses it: the attributes and the body.
Content(attributes, body) == [attributes |-> attributes, body |-> body]
NoContent == Content(NoFrontMatter, <<>>)

\* enum Mode
Mode == [RedirectOpen |-> <<"O", "p", "e", "n">>,
         Standard |-> <<"S", "t", "a", "n", "d", "a", "r", "d">>]

\* `Redirect drop: ${this.settings.mode}`
StatusText(mode) ==
    <<"R", "e", "d", "i", "r", "e", "c", "t", " ", "d", "r", "o", "p", ":", " ">> \o mode

NoStatusBar == [shown |-> FALSE, text |-> <<>>]

\* onload: the status bar item exists on desktop only.
OnloadStatusBar(a, mode) ==
    IF a.desktop THEN [shown |-> TRUE, text |-> StatusText(mode)] ELSE NoStatusBar

\* An adapter that is not a FileSystemAdapter (mobile).
MobileAdapter == [desktop |-> FALSE, basePath |-> <<>>, sep |-> "/"]

\* An event: its kind, the files it carries, whether it arrived with its
\* default prevented, whether the plugin's handler prevented it, and a mark
\* that tells an event from the one before it.
Event(kind, fs, defaultPrevented, prevented, tick) ==
    [kind |-> kind, files |-> fs, defaultPrevented |-> defaultPrevented,
     prevented |-> prevented, tick |-> tick]
NoEvent == Event("none", <<>>, FALSE, FALSE, FALSE)
NoDispatch == [called |-> FALSE, given |-> <<>>, action |-> "none", done |-> <<>>]

\* Neither an alias prompt nor a status bar nor a drop is part of the run.
NoExtras ==
    /\ aliasPrompt = NoPrompt
    /\ disk = NoContent
    /\ statusBar = NoStatusBar
    /\ adapter = MobileAdapter
    /\ uiEvent = NoEvent
    /\ dispatch = NoDispatch

NoSuggestions == [open |-> FALSE, list |-> <<>>]
NoModal == [open |-> FALSE, files |-> <<>>]
NoEdit ==
    [kind |-> "none", before |-> <<>>, start |-> 0, end |-> 0, text |-> <<>>,
     alias |-> <<>>]

\* The host asks the suggester for the suggestions of the current context.
GetSuggestions ==
    /\ context.active
    /\ ~raised
    /\ \E r \in {getSuggestions(context)} :
          /\ suggestions' = [open |-> ~r.raised, list |-> r.list]
          /\ raised' = r.raised
    /\ lastCall' = "getSuggestions"
    /\ UNCHANGED extraVars
    /\ UNCHANGED <<files, settings, hostNonString, triggerString, line, cursor,
                   context, modal, opened, lastEdit>>

\* The command "redirect-open-file": a FilePathModal over the redirect files.
OpenFileCommand ==
    /\ ~modal.open
    /\ ~raised
    /\ \E r \in {getRedirectFiles(plugin, files, settings.limitToRedirectedFiles, NoFilter)} :
          /\ modal' = [open |-> ~r.raised,
                       files |-> FilePathModalFiles(settings.limitToNonMarkdown, r.list)]
          /\ raised' = r.raised
    /\ lastCall' = "openFileCommand"
    /\ UNCHANGED extraVars
    /\ UNCHANGED <<files, settings, hostNonString, triggerString, line, cursor,
                   context, suggestions, opened, lastEdit>>

\* The host calls onTrigger for the cursor's position.
OnTrigger ==
    /\ ~raised
    /\ \E r \in {onTrigger(line, cursor, triggerString)} :
          /\ context' = r.info
          /\ raised' = r.raised
    /\ lastCall' = "onTrigger"
    /\ UNCHANGED extraVars
    /\ UNCHANGED <<files, settings, hostNonString, triggerString, line, cursor,
                   suggestions, modal, opened, lastEdit>>

\* editor.replaceRange(replacement, from, to) within the line.
replaceRange(text, replacement, from, to) ==
    substring(text, 0, from) \o replacement \o substring(text, to, Len(text))

\* fileManager.generateMarkdownLink(file, sourcePath, "", alias): the host's
\* link to the file, labelled with the alias; an embed ("!" first) when the
\* file is not a markdown file.
generateMarkdownLink(dest, alias) ==
    (IF FileExtension(dest) = <<"m", "d">> THEN <<>> ELSE <<"!">>)
        \o <<"[", "[">> \o dest \o <<"|">> \o alias \o <<"]", "]">>

\* .replace(/^\!/, "")
stripBang(s) == IF s # <<>> /\ s[1] = "!" THEN Tail(s) ELSE s

\* The text selectSuggestion inserts for a suggestion whose target is dest.
markdownLinkOf(dest, suggestion) ==
    stripBang(generateMarkdownLink(dest, suggestion.alias))

\* CursorAfter counted from the end of the replaced range.
CursorAfterEnd(ctx, markdownLink) == ctx.end + Len(markdownLink)

\* The cursor position selectSuggestion sets: { line, ch: ch + markdownLink.length }.
CursorAfter(ctx, markdownLink) == ctx.start + Len(markdownLink)

\* The host's reaction to a change of the buffer or of the cursor: it calls
\* onTrigger and, with a trigger, getSuggestions, and shows what that returns;
\* without one it closes the suggestions.
HostTrigger(newLine, newCursor) ==
    \E t \in {onTrigger(newLine, newCursor, triggerString)} :
        /\ context' = t.info
        /\ IF t.raised
           THEN /\ suggestions' = NoSuggestions
                /\ raised' = TRUE
                /\ lastCall' = "onTrigger"
           ELSE IF t.info.active
           THEN \E r \in {getSuggestions(t.info)} :
                   /\ suggestions' = [open |-> ~r.raised, list |-> r.list]
                   /\ raised' = r.raised
                   /\ lastCall' = "getSuggestions"
           ELSE /\ suggestions' = NoSuggestions
                /\ raised' = FALSE
                /\ lastCall' = "onTrigger"

\* The user types one character at the cursor.
TypeChar(c) ==
    /\ ~modal.open
    /\ ~raised
    /\ Len(line) < MaxTyped
    /\ line' = replaceRange(line, <<c>>, cursor, cursor)
    /\ cursor' = cursor + 1
    /\ lastEdit' = [NoEdit EXCEPT !.kind = "type"]
    /\ HostTrigger(line', cursor')
    /\ UNCHANGED extraVars
    /\ UNCHANGED <<files, settings, hostNonString, triggerString, modal, opened>>

\* The user moves the cursor within the line.
MoveCursor(ch) ==
    /\ ~modal.open
    /\ ~raised
    /\ ch \in 0..Len(line)
    /\ ch # cursor
    /\ cursor' = ch
    /\ lastEdit' = [NoEdit EXCEPT !.kind = "move"]
    /\ HostTrigger(line, ch)
    /\ UNCHANGED extraVars
    /\ UNCHANGED <<files, settings, hostNonString, triggerString, line, modal, opened>>

\* SelectionTarget taken from the suggestion as it was computed.
SelectionTargetCached(suggestion) == Found(suggestion.redirectTFile)

\* The file selectSuggestion resolves the suggestion's declared target to,
\* from the path of its origin document, in the vault as it is now.
SelectionTarget(suggestion) ==
    getFirstLinkpathDest(plugin.host, Str(suggestion.path), suggestion.originTFile)

\* RedirectEditorSuggester.selectSuggestion(suggestion), for the i-th
\* suggestion shown; the change of the buffer makes the host trigger again.
SelectSuggestion(i) ==
    /\ ~modal.open
    /\ ~raised
    /\ suggestions.open
    /\ i \in 1..Len(suggestions.list)
    /\ LET suggestion == suggestions.list[i]
           file == SelectionTarget(suggestion)
       IN IF context.active /\ file.kind = "file"
          THEN \E markdownLink \in {markdownLinkOf(file.path, suggestion)} :
                  /\ line' = replaceRange(line, markdownLink, context.start, context.end)
                  /\ cursor' = CursorAfter(context, markdownLink)
                  /\ lastEdit' = [kind |-> "select", before |-> line,
                                  start |-> context.start, end |-> context.end,
                                  text |-> markdownLink,
                                  alias |-> suggestion.alias]
                  /\ HostTrigger(line', cursor')
          ELSE /\ lastCall' = "selectSuggestion"
               /\ UNCHANGED <<line, cursor, lastEdit, context, suggestions, raised>>
    /\ UNCHANGED extraVars
    /\ UNCHANGED <<files, settings, hostNonString, triggerString, modal, opened>>

\* FilePathModal.onChooseSuggestion for the i-th item, as the command
\* "redirect-open-file" wires it: openFile(file.redirectTFile); the modal closes.
ChooseFile(i) ==
    /\ modal.open
    /\ i \in 1..Len(modal.files)
    /\ opened' = modal.files[i].redirectTFile
    /\ modal' = NoModal
    /\ lastCall' = "onChooseFile"
    /\ UNCHANGED extraVars
    /\ UNCHANGED <<files, settings, hostNonString, triggerString, line, cursor,
                   context, suggestions, lastEdit, raised>>

\* The user dismisses the modal (esc).
CloseModal ==
    /\ modal.open
    /\ modal' = NoModal
    /\ UNCHANGED extraVars
    /\ UNCHANGED <<files, settings, hostNonString, triggerString, line, cursor,
                   context, suggestions, opened, lastEdit, lastCall, raised>>

\* The vault changes under the plugin: a file is created, ...
CreateFile(rec) ==
    /\ Len(files) < MaxFiles
    /\ rec.path \notin Paths(files)
    /\ files' = Append(files, rec)
    /\ UNCHANGED extraVars
    /\ UNCHANGED <<settings, hostNonString, triggerString, line, cursor, context,
                   suggestions, modal, opened, lastEdit, lastCall, raised>>

\* ... deleted, ...
DeleteFile(i) ==
    /\ i \in 1..Len(files)
    /\ files' = SubSeq(files, 1, i - 1) \o SubSeq(files, i + 1, Len(files))
    /\ UNCHANGED extraVars
    /\ UNCHANGED <<settings, hostNonString, triggerString, line, cursor, context,
                   suggestions, modal, opened, lastEdit, lastCall, raised>>

\* ... or its front matter is edited and the metadata cache follows.
ModifyFrontMatter(i, fm) ==
    /\ i \in 1..Len(files)
    /\ files[i].path \in MarkdownPaths
    /\ files[i].fm # fm
    /\ files' = [files EXCEPT ![i].fm = fm]
    /\ UNCHANGED extraVars
    /\ UNCHANGED <<settings, hostNonString, triggerString, line, cursor, context,
                   suggestions, modal, opened, lastEdit, lastCall, raised>>

\* RedirectSettingsTab: the toggle "Limit to non-Markdown files".
SetLimitToNonMarkdown(value) ==
    /\ ~modal.open
    /\ settings.limitToNonMarkdown # value
    /\ settings' = [settings EXCEPT !.limitToNonMarkdown = value]
    /\ UNCHANGED extraVars
    /\ UNCHANGED <<files, hostNonString, triggerString, line, cursor, context,
                   suggestions, modal, opened, lastEdit, lastCall, raised>>

\* RedirectSettingsTab: the toggle "Limit to redirected files".
SetLimitToRedirectedFiles(value) ==
    /\ ~modal.open
    /\ settings.limitToRedirectedFiles # value
    /\ settings' = [settings EXCEPT !.limitToRedirectedFiles = value]
    /\ UNCHANGED extraVars
    /\ UNCHANGED <<files, hostNonString, triggerString, line, cursor, context,
                   suggestions, modal, opened, lastEdit, lastCall, raised>>

DefaultTrigger == <<"r", "[">>

\* DEFAULT_SETTINGS
DEFAULT_SETTINGS ==
    [limitToNonMarkdown |-> TRUE, limitToRedirectedFiles |-> TRUE,
     triggerString |-> DefaultTrigger, mode |-> Mode.Standard]

\* SetTriggerString with the suggester reading the setting at every call.
SetTriggerStringLive(value) ==
    /\ ~modal.open
    /\ settings' = [settings EXCEPT !.triggerString =
                        IF value # <<>> THEN value ELSE DEFAULT_SETTINGS.triggerString]
    /\ settings'.triggerString # settings.triggerString
    /\ triggerString' = settings'.triggerString
    /\ lastCall' = "settingsTab"
    /\ UNCHANGED extraVars
    /\ UNCHANGED <<files, hostNonString, line, cursor, context,
                   suggestions, modal, opened, lastEdit, raised>>

\* RedirectSettingsTab: the text field "Trigger string"; an empty value
\* stands for the default.  The suggester's own triggerString is not written.
SetTriggerString(value) ==
    /\ ~modal.open
    /\ settings' = [settings EXCEPT !.triggerString =
                        IF value # <<>> THEN value ELSE DEFAULT_SETTINGS.triggerString]
    /\ settings'.triggerString # settings.triggerString
    /\ lastCall' = "settingsTab"
    /\ UNCHANGED extraVars
    /\ UNCHANGED <<files, hostNonString, triggerString, line, cursor, context,
                   suggestions, modal, opened, lastEdit, raised>>

\* The plugin is reloaded: onload reads the settings and constructs a new
\* RedirectEditorSuggester, which copies the trigger string.
Reload ==
    /\ triggerString' = settings.triggerString
    /\ context' = NoTrigger
    /\ suggestions' = NoSuggestions
    /\ modal' = NoModal
    /\ lastCall' = "onload"
    /\ raised' = FALSE
    /\ statusBar' = OnloadStatusBar(adapter, settings.mode)
    /\ UNCHANGED <<aliasPrompt, disk, adapter, uiEvent, dispatch>>
    /\ UNCHANGED <<files, settings, hostNonString, line, cursor, opened, lastEdit>>

-----------------------------------------------------------------------------
(* The inputs the specifications draw from                                   *)



FM(a, as, r, rs) == [alias |-> a, aliases |-> as, redirect |-> r, redirects |-> rs]

\* The front matters the markdown files are given.
FrontMatters ==
    { NoFrontMatter,
      FM(Absent, Absent, Absent, Array(<<Str(pX)>>)),
      FM(Absent, Array(<<Str(<<"C", "a">>), Null, Str(<<"A">>)>>), Absent,
         Array(<<Str(<<"x", ".", "p", "n", "g">>), Null, Str(<<"z", "z">>)>>)),
      FM(Scalar(Str(<<"C", "a">>)), Array(<<Str(<<"b">>)>>), Scalar(Str(pX)), Array(<<Str(<<"7">>)>>)),
      FM(Absent, Absent, Scalar(Num(<<"7">>)), Absent),
      FM(Absent, Array(<<Str(<<>>), Str(<<"C", "a">>)>>), Absent, Array(<<Str(pA), Str(p7)>>)),
      FM(Scalar(Str(<<>>)), Scalar(Str(<<"b">>)), Scalar(Str(pX)), Array(<<>>)),
      FM(Absent, Array(<<Num(<<"7">>)>>), Scalar(Str(pX)), Absent),
      FM(Scalar(Str(<<"C", "a">>)), Absent, Absent, Array(<<Str(pX), Str(pX)>>)),
      FM(Absent, Absent, Scalar(Str(pX)), Scalar(Str(<<>>))),
      FM(Scalar(Str(<<"b">>)), Absent, Scalar(Str(pX)), Absent) }

FileRecords ==
    {[path |-> p, fm |-> f] : p \in MarkdownPaths, f \in FrontMatters}
        \cup {[path |-> p, fm |-> NoFrontMatter] : p \in BinaryPaths}

\* The vaults of at most MaxFiles files, in every order (no path twice).
Vaults ==
    UNION {{v \in [1..k -> FileRecords] :
               \A i, j \in 1..k : v[i].path = v[j].path => i = j} : k \in 0..MaxFiles}

HasNonString(v) ==
    \E i \in 1..Len(v) : \E key \in {"alias", "aliases", "redirect", "redirects"} :
        \E j \in 1..Len(v[i].fm[key].ms) : v[i].fm[key].ms[j].t = "num"

HostOutcomes == {"null", "raise", "coerce"}

\* The queries typed after the trigger string.
Queries == {<<>>, <<"c", "a", " ", "p", "n", "g">>, <<"c", "a", " ", "j", "p", "g">>, <<" ", "X">>, <<"A", " ", " ", "P", "N", "G", " ">>}

Settings ==
    [limitToNonMarkdown : BOOLEAN, limitToRedirectedFiles : BOOLEAN,
     triggerString : {DefaultTrigger}, mode : {Mode.Standard}]

-----------------------------------------------------------------------------
(* SpecResolve: getRedirectFiles applied to every vault, setting and query *)

InitResolve ==
    /\ files \in Vaults
    /\ settings \in Settings
    /\ hostNonString \in HostOutcomes
    /\ (~HasNonString(files) => hostNonString = "null")
    /\ triggerString = settings.triggerString
    /\ line \in {triggerString \o q : q \in Queries}
    /\ cursor = Len(line)
    /\ context = onTrigger(line, cursor, triggerString).info
    /\ suggestions = NoSuggestions
    /\ modal = NoModal
    /\ opened = <<>>
    /\ lastEdit = NoEdit
    /\ lastCall = "onTrigger"
    /\ raised = FALSE
    /\ NoExtras

NextResolve == GetSuggestions

SpecResolve == InitResolve /\ [][NextResolve]_vars

-----------------------------------------------------------------------------
(* SpecTrigger: onTrigger applied to every line, cursor and trigger string *)

TriggerAlphabet == {"r", "[", "]"}

Lines == UNION {[1..k -> TriggerAlphabet] : k \in 0..MaxLine}

Triggers == {DefaultTrigger, <<"[", "[">>, <<"r", "[", "[">>, <<"r">>}

InitTrigger ==
    /\ files = <<[path |-> pA, fm |-> FM(Absent, Absent, Absent, Array(<<Str(pX)>>))],
                 [path |-> pX, fm |-> NoFrontMatter]>>
    /\ triggerString \in Triggers
    /\ settings \in [limitToNonMarkdown : {TRUE}, limitToRedirectedFiles : {TRUE},
                     triggerString : {triggerString}, mode : {Mode.Standard}]
    /\ hostNonString = "null"
    /\ line \in Lines
    /\ cursor \in 0..Len(line)
    /\ context = NoTrigger
    /\ suggestions = NoSuggestions
    /\ modal = NoModal
    /\ opened = <<>>
    /\ lastEdit = NoEdit
    /\ lastCall = "none"
    /\ raised = FALSE
    /\ NoExtras

NextTrigger == OnTrigger

SpecTrigger == InitTrigger /\ [][NextTrigger]_vars

-----------------------------------------------------------------------------
(* The editing and the modal sessions: the plugin as loaded with its       *)
(* default settings on the vault {A.md -> img/x.png, img/x.png}, the vault *)
(* changing under it                                                       *)

SessionFrontMatters ==
    { NoFrontMatter,
      FM(Absent, Absent, Absent, Array(<<Str(pX)>>)),
      FM(Scalar(Str(<<"r">>)), Absent, Scalar(Str(<<"x", ".", "p", "n", "g">>)), Absent) }

SessionRecords ==
    {[path |-> pA, fm |-> f] : f \in SessionFrontMatters}
        \cup {[path |-> pX, fm |-> NoFrontMatter]}

TypeAlphabet == {"r", "[", "]"}

InitSession ==
    /\ files = <<[path |-> pA, fm |-> FM(Absent, Absent, Absent, Array(<<Str(pX)>>))],
                 [path |-> pX, fm |-> NoFrontMatter]>>
    /\ settings = DEFAULT_SETTINGS
    /\ hostNonString = "null"
    /\ triggerString = settings.triggerString
    /\ line = <<>>
    /\ cursor = 0
    /\ context = NoTrigger
    /\ suggestions = NoSuggestions
    /\ modal = NoModal
    /\ opened = <<>>
    /\ lastEdit = NoEdit
    /\ lastCall = "none"
    /\ raised = FALSE
    /\ NoExtras

VaultChanges ==
    \/ \E rec \in SessionRecords : CreateFile(rec)
    \/ \E i \in 1..MaxFiles : DeleteFile(i)
    \/ \E i \in 1..MaxFiles : \E fm \in SessionFrontMatters : ModifyFrontMatter(i, fm)

SettingChanges ==
    \/ \E v \in BOOLEAN : SetLimitToNonMarkdown(v)
    \/ \E v \in BOOLEAN : SetLimitToRedirectedFiles(v)

NextEditor ==
    \/ \E c \in TypeAlphabet : TypeChar(c)
    \/ \E ch \in 0..Len(line) : MoveCursor(ch)
    \/ \E i \in 1..Len(suggestions.list) : SelectSuggestion(i)
    \/ VaultChanges

SpecEditor == InitSession /\ [][NextEditor]_vars

NextModal ==
    \/ OpenFileCommand
    \/ \E i \in 1..Len(modal.files) : ChooseFile(i)
    \/ CloseModal
    \/ VaultChanges
    \/ SettingChanges

SpecModal == InitSession /\ [][NextModal]_vars

-----------------------------------------------------------------------------
(* SpecOpen: the command "redirect-open-file" run on every vault of a      *)
(* document and its targets, under every setting                           *)

OpenFrontMatters ==
    { NoFrontMatter,
      FM(Absent, Absent, Absent, Array(<<Str(pX)>>)),
      FM(Absent, Absent, Absent, Array(<<Str(pR)>>)),
      FM(Absent, Absent, Absent, Array(<<Str(pX), Str(pR)>>)),
      FM(Absent, Absent, Scalar(Str(<<"7">>)), Absent) }

OpenRecords ==
    {[path |-> p, fm |-> f] : p \in MarkdownPaths, f \in OpenFrontMatters}
        \cup {[path |-> p, fm |-> NoFrontMatter] : p \in {pX, pR}}

OpenVaults ==
    UNION {{v \in [1..k -> OpenRecords] :
               \A i, j \in 1..k : v[i].path = v[j].path => i = j} : k \in 0..MaxFiles}

InitOpen ==
    /\ files \in OpenVaults
    /\ settings \in Settings
    /\ hostNonString = "null"
    /\ triggerString = settings.triggerString
    /\ line = <<>>
    /\ cursor = 0
    /\ context = NoTrigger
    /\ suggestions = NoSuggestions
    /\ modal = NoModal
    /\ opened = <<>>
    /\ lastEdit = NoEdit
    /\ lastCall = "none"
    /\ raised = FALSE
    /\ NoExtras

NextOpen ==
    \/ OpenFileCommand
    \/ \E i \in 1..Len(modal.files) : ChooseFile(i)
    \/ CloseModal

SpecOpen == InitOpen /\ [][NextOpen]_vars

-----------------------------------------------------------------------------
(* SpecSettings: an editing session in which the settings tab is used and  *)
(* the plugin reloaded                                                     *)

\* The values typed into the "Trigger string" field.
TriggerEdits == {<<>>, <<"[", "[">>}

\* A document with an image target and a markdown target, and the targets.
SettingsVault ==
    <<[path |-> pA, fm |-> FM(Absent, Absent, Absent, Array(<<Str(pX), Str(p7)>>))],
      [path |-> pX, fm |-> NoFrontMatter],
      [path |-> p7, fm |-> NoFrontMatter]>>

InitSettings ==
    /\ files = SettingsVault
    /\ settings = DEFAULT_SETTINGS
    /\ hostNonString = "null"
    /\ triggerString = settings.triggerString
    /\ line = <<>>
    /\ cursor = 0
    /\ context = NoTrigger
    /\ suggestions = NoSuggestions
    /\ modal = NoModal
    /\ opened = <<>>
    /\ lastEdit = NoEdit
    /\ lastCall = "none"
    /\ raised = FALSE
    /\ NoExtras

NextSettings ==
    \/ \E c \in TypeAlphabet : TypeChar(c)
    \/ \E value \in TriggerEdits : SetTriggerString(value)
    \/ SettingChanges
    \/ Reload

SpecSettings == InitSettings /\ [][NextSettings]_vars

-----------------------------------------------------------------------------
(* Properties of getRedirectFiles (SpecResolve)                            *)

Md == <<"m", "d">>

\* getSuggestions has returned a list for the query of the context.
ResolveDone == lastCall = "getSuggestions" /\ ~raised /\ suggestions.open

Returned == suggestions.list

\* The declared targets of file i that getRedirectFiles reads.
DeclaredTargets(i) ==
    RedirectsOf(files[i].fm, files[i].path, settings.limitToRedirectedFiles)

\* C1: every returned entry has a resolved target: resolving its declared
\* target text from its origin's path gives a file of the vault, the entry's
\* redirectTFile; and a declared target that does not resolve yields no entry.
C1_NoDanglingTargets ==
    ResolveDone =>
        /\ \A k \in 1..Len(Returned) :
              /\ Returned[k].redirectTFile \in Paths(files)
              /\ ResolveText(files, Returned[k].path, Returned[k].originTFile)
                    = Found(Returned[k].redirectTFile)
        /\ \A i \in 1..Len(files) : \A j \in 1..Len(DeclaredTargets(i)) :
              LET m == DeclaredTargets(i)[j]
              IN (m.t = "str" /\ ResolveText(files, m.s, files[i].path) = NoFile)
                    => ~\E k \in 1..Len(Returned) :
                          /\ Returned[k].originTFile = files[i].path
                          /\ Returned[k].path = m.s

\* A file declares a target that does not resolve next to one that does, and
\* the list holds entries of that file.
C1_Witness ==
    /\ ResolveDone
    /\ \E i \in 1..Len(files) :
          /\ \E j \in 1..Len(DeclaredTargets(i)) :
                /\ DeclaredTargets(i)[j].t = "str"
                /\ ResolveText(files, DeclaredTargets(i)[j].s, files[i].path) = NoFile
          /\ \E k \in 1..Len(Returned) : Returned[k].originTFile = files[i].path

\* C2: no returned entry has its origin document as its resolved target.
C2_NoSelfRedirect ==
    ResolveDone =>
        \A k \in 1..Len(Returned) : Returned[k].originTFile # Returned[k].redirectTFile

\* A file declares itself as a target next to another target: its entries
\* for the other target are returned.
C2_Witness ==
    /\ ResolveDone
    /\ \E i \in 1..Len(files) :
          /\ \E j \in 1..Len(DeclaredTargets(i)) :
                /\ DeclaredTargets(i)[j].t = "str"
                /\ ResolveText(files, DeclaredTargets(i)[j].s, files[i].path)
                      = Found(files[i].path)
          /\ \E k \in 1..Len(Returned) : Returned[k].originTFile = files[i].path

\* The words of a query: its maximal runs of non-whitespace characters.
Words(q) ==
    {SubSeq(q, a, b) : <<a, b>> \in
        {ab \in (1..Len(q)) \X (1..Len(q)) :
            /\ ab[1] <= ab[2]
            /\ \A k \in ab[1]..ab[2] : ~IsWhitespace(q[k])
            /\ (ab[1] = 1 \/ IsWhitespace(q[ab[1] - 1]))
            /\ (ab[2] = Len(q) \/ IsWhitespace(q[ab[2] + 1]))}}

CasePairs ==
    {<<"A", "a">>, <<"B", "b">>, <<"C", "c">>, <<"D", "d">>, <<"G", "g">>,
     <<"H", "h">>, <<"I", "i">>, <<"J", "j">>, <<"M", "m">>, <<"N", "n">>,
     <<"O", "o">>, <<"P", "p">>, <<"T", "t">>, <<"X", "x">>}

SameLetter(a, b) == a = b \/ <<a, b>> \in CasePairs \/ <<b, a>> \in CasePairs

\* w occurs in s, the case of letters ignored.
OccursIgnoringCase(w, s) ==
    \E i \in 0..(Len(s) - Len(w)) : \A k \in 1..Len(w) : SameLetter(s[i + k], w[k])

\* Every word of the query occurs in the alias or in the declared target.
QueryMatches(e, q) ==
    \A w \in Words(q) : OccursIgnoringCase(w, e.alias) \/ OccursIgnoringCase(w, e.path)

\* What getRedirectFiles returns without a filterString.
Unfiltered ==
    getRedirectFiles(plugin, files, settings.limitToRedirectedFiles, NoFilter).list

CatEntry ==
    Suggestion(Str(<<"C", "a", "t", " ", "P", "h", "o", "t", "o">>), Str(<<"i", "m", "g", "/", "c", "a", "t", ".", "p", "n", "g">>), pA, <<"i", "m", "g", "/", "c", "a", "t", ".", "p", "n", "g">>)

\* C3: the entries returned for a query are, in order, the entries returned
\* without a query whose alias or declared target contains every word of the
\* query, case ignored; an empty or absent query keeps every entry; for
\* {alias "Cat Photo", target "img/cat.png"}, "cat png" matches and "cat jpg"
\* does not.
C3_QueryFilter ==
    /\ ResolveDone =>
          Returned = SelectSeq(Unfiltered, LAMBDA e : QueryMatches(e, context.query))
    /\ \A k \in 1..Len(Unfiltered) :
          MatchesFilter(Unfiltered[k], NoFilter) /\ MatchesFilter(Unfiltered[k], FilterText(<<>>))
    /\ MatchesFilter(CatEntry, FilterText(<<"c", "a", "t", " ", "p", "n", "g">>))
    /\ ~MatchesFilter(CatEntry, FilterText(<<"c", "a", "t", " ", "j", "p", "g">>))

\* A query of two words keeps some entries and drops others.
C3_Witness ==
    /\ ResolveDone
    /\ Cardinality(Words(context.query)) = 2
    /\ Len(Returned) > 0
    /\ Len(Returned) < Len(Unfiltered)

\* C6: with limitToRedirectedFiles off and an empty query, every document
\* that declares no redirect target (and that limitToNonMarkdown does not
\* exclude) has an entry whose target is the document itself.
C6_SelfTargetSurfaced ==
    (ResolveDone /\ ~settings.limitToRedirectedFiles /\ context.query = <<>>) =>
        \A i \in 1..Len(files) :
            ( /\ files[i].fm.redirect = Absent
              /\ files[i].fm.redirects = Absent
              /\ (settings.limitToNonMarkdown => FileExtension(files[i].path) # Md) )
            => \E k \in 1..Len(Returned) :
                  /\ Returned[k].originTFile = files[i].path
                  /\ Returned[k].redirectTFile = files[i].path

\* What getRedirectFiles returns for the same query with limitToNonMarkdown off.
WithMarkdown ==
    getRedirectFiles([plugin EXCEPT !.settings.limitToNonMarkdown = FALSE], files,
                     settings.limitToRedirectedFiles, FilterText(context.query)).list

\* C7: with limitToNonMarkdown on, no returned entry has a resolved target
\* whose file extension is "md", and the entries whose resolved target has
\* another extension are all kept.
C7_NonMarkdownOnly ==
    (ResolveDone /\ settings.limitToNonMarkdown) =>
        /\ \A k \in 1..Len(Returned) : FileExtension(Returned[k].redirectTFile) # Md
        /\ Returned = SelectSeq(WithMarkdown,
                                LAMBDA e : FileExtension(e.redirectTFile) # Md)

\* C8: getRedirectFiles and onTrigger return; neither raises.
C8_Total == ~raised

-----------------------------------------------------------------------------
(* Properties of onTrigger (SpecTrigger)                                   *)

\* onTrigger has returned.
TriggerDone == lastCall = "onTrigger" /\ ~raised

\* The text before the cursor, and the offsets at which the trigger string
\* occurs in it.
BeforeCursor == SubSeq(line, 1, cursor)

Occurrences ==
    {i \in 0..cursor :
        /\ i + Len(triggerString) <= cursor
        /\ \A k \in 1..Len(triggerString) : line[i + k] = triggerString[k]}

\* C4 as claimed: start is the offset of the first occurrence of the trigger
\* string in the text before the cursor.
C4_StartIsFirstOccurrence ==
    (TriggerDone /\ Occurrences # {}) =>
        /\ context.active
        /\ \A i \in Occurrences : context.start <= i
        /\ context.start \in Occurrences

\* C4 amended: whenever the trigger string occurs in the text before the
\* cursor, onTrigger returns a trigger whose start is the offset of its last
\* occurrence there.
C4_StartIsLastOccurrence ==
    (TriggerDone /\ Occurrences # {}) =>
        /\ context.active
        /\ \A i \in Occurrences : i <= context.start
        /\ context.start \in Occurrences

\* The trigger string occurs twice before the cursor.
C4_Witness ==
    /\ TriggerDone
    /\ context.active
    /\ Cardinality(Occurrences) >= 2

\* The number of "[" that end the trigger string.
ClosingCount ==
    Cardinality({k \in 1..Len(triggerString) :
        \A j \in (Len(triggerString) - k + 1)..Len(triggerString) : triggerString[j] = "["})

\* C5: when the trigger string ends with k >= 1 "[" and the k characters
\* after the cursor are k "]", end is just past them; in every other
\* triggered case end is the cursor's offset.
C5_BracketAbsorption ==
    (TriggerDone /\ context.active) =>
        IF /\ ClosingCount >= 1
           /\ cursor + ClosingCount <= Len(line)
           /\ \A k \in 1..ClosingCount : line[cursor + k] = "]"
        THEN context.end = cursor + ClosingCount
        ELSE context.end = cursor

-----------------------------------------------------------------------------
(* Properties of the sessions (SpecModal, SpecEditor)                      *)

\* C9: every list the user can select from, in the file modal or in the
\* editor's suggestions, is the list computed from the vault and the
\* settings as they are now.
C9_NoStaleSuggestions ==
    /\ modal.open =>
          modal.files = FilePathModalFiles(settings.limitToNonMarkdown, Unfiltered)
    /\ suggestions.open => suggestions.list = getSuggestions(context).list

\* C10: after a selection the line is the line before it with the range
\* [start, end) of the trigger context replaced by the link text, which is
\* labelled with the suggestion's alias, and the cursor is right after the
\* inserted text.
C10_SelectionSplice ==
    lastEdit.kind = "select" =>
        LET b == lastEdit.before
            t == lastEdit.text
            s == lastEdit.start
            e == lastEdit.end
        IN /\ 0 <= s /\ s <= e /\ e <= Len(b)
           /\ Len(line) = Len(b) - (e - s) + Len(t)
           /\ \A i \in 1..Len(line) :
                 line[i] = IF i <= s THEN b[i]
                           ELSE IF i <= s + Len(t) THEN t[i - s]
                           ELSE b[i - Len(t) + (e - s)]
           /\ cursor = s + Len(t)
           /\ \E i \in 1..Len(t) :
                 /\ t[i] = "|"
                 /\ SubSeq(t, i + 1, i + Len(lastEdit.alias)) = lastEdit.alias

\* A selection replaced a range that reaches past the cursor: the trigger
\* string, an empty query and the closing bracket after the cursor.
C10_Witness ==
    /\ lastEdit.kind = "select"
    /\ lastEdit.end = lastEdit.start + Len(triggerString) + 1
    /\ lastEdit.end = Len(lastEdit.before)

-----------------------------------------------------------------------------
(* Properties of the entries' fields and of the entry list (SpecResolve)   *)

\* The vault {A.md with redirects ["img/x.png"], img/x.png}.
ScenarioVault ==
    <<[path |-> pA, fm |-> FM(Absent, Absent, Absent, Array(<<Str(pX)>>))],
      [path |-> pX, fm |-> NoFrontMatter]>>

\* What getRedirectFiles returns for the scenario's vault and an empty query.
ScenarioEntries ==
    getRedirectFiles([settings |-> DEFAULT_SETTINGS,
                      host |-> [vault |-> ScenarioVault, nonString |-> "null"]],
                     ScenarioVault, TRUE, FilterText(<<>>)).list

\* C11: every returned entry's isAlias is true exactly when the entry's alias
\* text differs from the basename of its origin document; the scenario's
\* vault yields the entry {alias "A", path "img/x.png", isAlias false}.
C11_IsAliasFlag ==
    /\ ResolveDone =>
          \A k \in 1..Len(Returned) :
              Returned[k].isAlias
                  <=> (Returned[k].alias # FileBasename(Returned[k].originTFile))
    /\ \E k \in 1..Len(ScenarioEntries) :
          /\ ScenarioEntries[k].alias = <<"A">>
          /\ ScenarioEntries[k].path = pX
          /\ ~ScenarioEntries[k].isAlias

\* What declared target j of file i resolves to.
TargetDest(i, j) ==
    getFirstLinkpathDest(plugin.host, DeclaredTargets(i)[j], files[i].path)

\* An entry of file i named by the file's basename is returned.
HasSelfEntry(i) ==
    \E k \in 1..Len(Returned) :
        /\ Returned[k].originTFile = files[i].path
        /\ Returned[k].alias = FileBasename(files[i].path)

AliasNames(i) == Append(AliasesOf(files[i].fm), Str(FileBasename(files[i].path)))

\* C13: the returned list never holds two entries with the same alias, the
\* same declared target and the same origin document, while (empty query,
\* limitToNonMarkdown off) every alias of a document keeps its entry for a
\* target the document shares among its aliases.
C13_NoExactDuplicates ==
    ResolveDone =>
        /\ \A k, l \in 1..Len(Returned) :
              ( /\ Returned[k].alias = Returned[l].alias
                /\ Returned[k].path = Returned[l].path
                /\ Returned[k].originTFile = Returned[l].originTFile ) => k = l
        /\ (context.query = <<>> /\ ~settings.limitToNonMarkdown) =>
              \A i \in 1..Len(files) :
                  \A a \in 1..Len(AliasNames(i)), j \in 1..Len(DeclaredTargets(i)) :
                      ( /\ Template(AliasNames(i)[a]) # <<>>
                        /\ TargetDest(i, j).kind = "file"
                        /\ TargetDest(i, j).path # files[i].path )
                      => \E k \in 1..Len(Returned) :
                            /\ Returned[k].originTFile = files[i].path
                            /\ Returned[k].alias = Template(AliasNames(i)[a])
                            /\ Returned[k].redirectTFile = TargetDest(i, j).path

\* A front-matter value with a scalar replaced by the one-element sequence
\* that contains it.
AsSequence(v) == IF v.k = "scalar" THEN Array(v.ms) ELSE v

\* The vault with every scalar redirect/redirects value written as a
\* one-element sequence.
SequencedRedirects ==
    [i \in 1..Len(files) |->
        [files[i] EXCEPT !.fm.redirect = AsSequence(@), !.fm.redirects = AsSequence(@)]]

AllStrings(ms) == \A j \in 1..Len(ms) : ms[j].t = "str"

\* C14: a document declaring alias: X (a string) has the candidate aliases
\* [X], one declaring only aliases: [X, Y] has [X, Y], one declaring neither
\* has []; and the entries returned are those returned when every scalar
\* redirect/redirects value is written as a one-element sequence.
C14_Normalisation ==
    /\ \A i \in 1..Len(files) :
          LET fm == files[i].fm
          IN /\ (fm.alias.k = "scalar" /\ AllStrings(fm.alias.ms))
                    => AliasesOf(fm) = fm.alias.ms
             /\ (fm.alias = Absent /\ fm.aliases.k = "seq" /\ AllStrings(fm.aliases.ms))
                    => AliasesOf(fm) = fm.aliases.ms
             /\ (fm.alias = Absent /\ fm.aliases = Absent) => AliasesOf(fm) = <<>>
    /\ ResolveDone =>
          Returned = getRedirectFiles([plugin EXCEPT !.host.vault = SequencedRedirects],
                                      SequencedRedirects,
                                      settings.limitToRedirectedFiles,
                                      FilterText(context.query)).list

\* A scalar that || takes for a missing value: null, "" or 0.
EmptyScalar(v) == v.k = "scalar" /\ ~Truthy(v)

\* C14 amended: a document declaring alias: X, X a non-empty string, has
\* the candidate aliases [X], one declaring only aliases: [X, Y] has [X, Y],
\* one declaring neither has []; and when no redirect/redirects value is an
\* empty scalar, the entries returned are those returned when every scalar
\* redirect/redirects value is written as a one-element sequence.
C14_NormalisationOfNonEmpty ==
    /\ \A i \in 1..Len(files) :
          LET fm == files[i].fm
          IN /\ (fm.alias.k = "scalar" /\ AllStrings(fm.alias.ms) /\ ~EmptyScalar(fm.alias))
                    => AliasesOf(fm) = fm.alias.ms
             /\ (fm.alias = Absent /\ fm.aliases.k = "seq" /\ AllStrings(fm.aliases.ms))
                    => AliasesOf(fm) = fm.aliases.ms
             /\ (fm.alias = Absent /\ fm.aliases = Absent) => AliasesOf(fm) = <<>>
    /\ ( /\ ResolveDone
         /\ \A i \in 1..Len(files) :
               ~EmptyScalar(files[i].fm.redirect) /\ ~EmptyScalar(files[i].fm.redirects) )
       => Returned = getRedirectFiles([plugin EXCEPT !.host.vault = SequencedRedirects],
                                      SequencedRedirects,
                                      settings.limitToRedirectedFiles,
                                      FilterText(context.query)).list

\* A document declares a scalar alias and a scalar redirect, and an entry
\* with that alias and that target is returned.
C14_Witness ==
    /\ ResolveDone
    /\ \E i \in 1..Len(files) :
          /\ files[i].fm.alias.k = "scalar"
          /\ files[i].fm.redirect.k = "scalar"
          /\ files[i].fm.redirects = Absent
          /\ \E k \in 1..Len(Returned) :
                /\ Returned[k].originTFile = files[i].path
                /\ <<Str(Returned[k].alias)>> = files[i].fm.alias.ms
                /\ <<Str(Returned[k].path)>> = files[i].fm.redirect.ms

-----------------------------------------------------------------------------
(* Further properties of onTrigger (SpecTrigger)                           *)

\* C15: when the trigger string does not occur in the text before the
\* cursor, onTrigger returns the no-trigger signal, and only then; when the
\* text before the cursor ends with the trigger string, it returns a trigger
\* result whose query is the empty string.
C15_NoTriggerSignal ==
    TriggerDone =>
        /\ (Occurrences = {}) => context = NoTrigger
        /\ (Occurrences # {}) => context.active
        /\ endsWith(BeforeCursor, triggerString)
              => (context.active /\ context.query = <<>> /\ context # NoTrigger)

\* The trigger string occurs in the line, yet not before the cursor:
\* onTrigger has returned the no-trigger signal.
C15_Witness ==
    /\ TriggerDone
    /\ cursor > 0
    /\ Occurrences = {}
    /\ contains(line, triggerString)
    /\ context = NoTrigger

\* The line "see r[foo]".
SeeLine == <<"s", "e", "e", " ", "r", "[", "f", "o", "o", "]">>

\* C16: the query of a trigger result is the text of the line from
\* start + length(triggerString) up to the cursor, and that offset is not
\* past the cursor; for the line "see r[foo]", the trigger "r[" and the
\* cursor at 7 the query is "f".
C16_QueryExtraction ==
    /\ (TriggerDone /\ context.active) =>
          /\ context.start + Len(triggerString) <= cursor
          /\ context.query = SubSeq(line, context.start + Len(triggerString) + 1, cursor)
    /\ onTrigger(SeeLine, 7, DefaultTrigger).info.active
    /\ onTrigger(SeeLine, 7, DefaultTrigger).info.query = <<"f">>

\* A trigger result with a query of two characters or more, text following
\* the cursor.
C16_Witness ==
    /\ TriggerDone
    /\ context.active
    /\ Len(context.query) >= 2
    /\ cursor < Len(line)

-----------------------------------------------------------------------------
(* Further properties of getRedirectFiles (SpecResolve)                    *)

\* A front-matter value without the null members of its sequence.
WithoutNullMembers(v) ==
    IF v.k = "seq" THEN Array(SelectSeq(v.ms, LAMBDA m : m.t # "null")) ELSE v

\* The vault with the null members taken out of every sequence.
VaultWithoutNullMembers ==
    [i \in 1..Len(files) |->
        [files[i] EXCEPT !.fm.alias = WithoutNullMembers(@),
                         !.fm.aliases = WithoutNullMembers(@),
                         !.fm.redirect = WithoutNullMembers(@),
                         !.fm.redirects = WithoutNullMembers(@)]]

\* The text a template literal prints for null.
NullText == Template(Null)

\* C17: a null member of an alias/aliases or redirect/redirects sequence
\* yields no entry (no returned entry is named or targeted by the text of
\* null), and the other members yield their entries: the returned list is
\* the one returned for the same front matter without the null members.
C17_NullMembersDiscarded ==
    ResolveDone =>
        /\ \A k \in 1..Len(Returned) :
              Returned[k].alias # NullText /\ Returned[k].path # NullText
        /\ Returned = getRedirectFiles([plugin EXCEPT !.host.vault = VaultWithoutNullMembers],
                                       VaultWithoutNullMembers,
                                       settings.limitToRedirectedFiles,
                                       FilterText(context.query)).list

\* A document with a null member among its aliases and one among its
\* redirects has entries: one of a declared alias next to the null member,
\* one of its basename.
C17_Witness ==
    /\ ResolveDone
    /\ \E i \in 1..Len(files) :
          /\ \E j \in 1..Len(files[i].fm.aliases.ms) : files[i].fm.aliases.ms[j] = Null
          /\ \E j \in 1..Len(files[i].fm.redirects.ms) : files[i].fm.redirects.ms[j] = Null
          /\ files[i].fm.aliases.k = "seq" /\ files[i].fm.redirects.k = "seq"
          /\ \E k, l \in 1..Len(Returned) :
                /\ Returned[k].originTFile = files[i].path
                /\ Returned[l].originTFile = files[i].path
                /\ Returned[k].isAlias /\ ~Returned[l].isAlias

-----------------------------------------------------------------------------
(* Properties of the non-markdown filters (SpecOpen)                       *)

\* What getRedirectFiles returns for the open-file command, limitToNonMarkdown off.
OpenUnfiltered ==
    getRedirectFiles([plugin EXCEPT !.settings.limitToNonMarkdown = FALSE], files,
                     settings.limitToRedirectedFiles, NoFilter).list

\* C18: the non-markdown filter applied twice to an entry list yields the
\* list it yields applied once, also when the second filter is the file
\* modal's own: with limitToNonMarkdown on, the modal lists what the
\* resolver's filter keeps.
C18_FilterIdempotence ==
    /\ LimitToNonMarkdown(TRUE, LimitToNonMarkdown(TRUE, OpenUnfiltered))
          = LimitToNonMarkdown(TRUE, OpenUnfiltered)
    /\ (modal.open /\ settings.limitToNonMarkdown) =>
          modal.files = LimitToNonMarkdown(TRUE, OpenUnfiltered)

-----------------------------------------------------------------------------
(* Properties of the settings (SpecSettings)                               *)

\* The host has called onTrigger (and getSuggestions) in this step.
HostTriggered == line' # line \/ cursor' # cursor

\* The list getRedirectFiles returns under the settings after the step.
FreshSuggestions ==
    getRedirectFiles([settings |-> settings',
                      host |-> [vault |-> files', nonString |-> hostNonString']],
                     files', settings'.limitToRedirectedFiles,
                     FilterText(context'.query)).list

\* C19: an edit of the trigger string in the settings tab does not reach the
\* suggester, whose trigger string changes only when the plugin is reloaded,
\* to the setting's value then; onTrigger matches the suggester's trigger
\* string; and every getSuggestions call returns the list for the values of
\* limitToNonMarkdown and limitToRedirectedFiles at the call.
C19_TriggerFixedUntilReload ==
    [][ /\ (settings'.triggerString # settings.triggerString)
              => triggerString' = triggerString
        /\ (triggerString' # triggerString)
              => (lastCall' = "onload" /\ triggerString' = settings.triggerString)
        /\ HostTriggered =>
              /\ context' = onTrigger(line', cursor', triggerString).info
              /\ context'.active =>
                    (suggestions'.open /\ suggestions'.list = FreshSuggestions) ]_vars

\* After an edit of the trigger string, unloaded, onTrigger has matched the
\* load-time trigger string (which the edited one does not match here), and
\* getSuggestions has returned a markdown target, which it does only with
\* limitToNonMarkdown switched off.
C19_Witness ==
    /\ settings.triggerString # triggerString
    /\ lastCall = "getSuggestions"
    /\ context.active
    /\ ~onTrigger(line, cursor, settings.triggerString).info.active
    /\ ~settings.limitToNonMarkdown
    /\ \E k \in 1..Len(suggestions.list) : suggestions.list[k].extension = Md

-----------------------------------------------------------------------------
(* The resolver characterised (SpecResolve)                                *)

\* The pairs (a, j) of file i, a over its alias names and j over its
\* declared targets, in the nested order alias-then-target.
PairsOf(i) ==
    flat([a \in 1..Len(AliasNames(i)) |->
            [j \in 1..Len(DeclaredTargets(i)) |-> <<a, j>>]])

\* The pair names an entry: its alias is not the empty string and its
\* target resolves from the file's path to a document other than the file.
PairYieldsEntry(i, p) ==
    /\ Template(AliasNames(i)[p[1]]) # <<>>
    /\ TargetDest(i, p[2]).kind = "file"
    /\ TargetDest(i, p[2]).path # files[i].path

\* What identifies an entry: its alias, declared target, origin and resolved target.
EntryKey(e) == <<e.alias, e.path, e.originTFile, e.redirectTFile>>

\* The entries the pairs of file i name, one per pair.
ExpectedOf(i) ==
    LET ps == SelectSeq(PairsOf(i), LAMBDA p : PairYieldsEntry(i, p))
    IN [n \in 1..Len(ps) |->
           <<Template(AliasNames(i)[ps[n][1]]),
             Template(DeclaredTargets(i)[ps[n][2]]),
             files[i].path,
             TargetDest(i, ps[n][2]).path>>]

\* The entries returned for file i.
ReturnedOf(i) ==
    LET es == SelectSeq(Returned, LAMBDA e : e.originTFile = files[i].path)
    IN [n \in 1..Len(es) |-> EntryKey(es[n])]

\* C20: with an empty query and limitToNonMarkdown off, the entries returned
\* for a document are exactly one per pair (a, t), a among the document's
\* aliases followed by its basename and not the empty string, t among its
\* targets and resolving to another document: none is missing, none is added.
C20_CartesianProduct ==
    (ResolveDone /\ context.query = <<>> /\ ~settings.limitToNonMarkdown) =>
        /\ \A i \in 1..Len(files) : ReturnedOf(i) = ExpectedOf(i)
        /\ Len(Returned) = Len(flat([i \in 1..Len(files) |-> ExpectedOf(i)]))

\* A document with an empty alias among its aliases, itself among its
\* targets and another document among them: fewer entries than pairs, and
\* more than one.
C20_Witness ==
    /\ ResolveDone
    /\ context.query = <<>>
    /\ ~settings.limitToNonMarkdown
    /\ \E i \in 1..Len(files) :
          /\ \E a \in 1..Len(AliasNames(i)) : Template(AliasNames(i)[a]) = <<>>
          /\ \E j \in 1..Len(DeclaredTargets(i)) : TargetDest(i, j) = Found(files[i].path)
          /\ Len(ReturnedOf(i)) > 1
          /\ Len(ReturnedOf(i)) < Len(PairsOf(i))

-----------------------------------------------------------------------------
(* The order of the returned list (SpecResolve)                            *)

RECURSIVE IsSubsequence(_, _)
\* s is t with some of its elements taken out, the order of the rest kept.
IsSubsequence(s, t) ==
    IF s = <<>> THEN TRUE
    ELSE IF t = <<>> THEN FALSE
    ELSE IF Head(s) = Head(t) THEN IsSubsequence(Tail(s), Tail(t))
    ELSE IsSubsequence(s, Tail(t))

\* The entries of the whole vault in the order the claim gives: documents in
\* the vault's order, aliases in declared order and then the basename, and
\* for one alias the targets in declared order.
OrderedKeys == flat([i \in 1..Len(files) |-> ExpectedOf(i)])

\* What getRedirectFiles returns with no query and limitToNonMarkdown off.
FullList ==
    getRedirectFiles([plugin EXCEPT !.settings.limitToNonMarkdown = FALSE], files,
                     settings.limitToRedirectedFiles, NoFilter).list

\* C21: the returned list is in the order documents, then aliases (declared
\* order, then the basename), then targets (declared order); the query
\* filter and the non-markdown filter take entries out of that list and
\* leave the order of the others.
C21_OutputOrdering ==
    ResolveDone =>
        /\ [n \in 1..Len(FullList) |-> EntryKey(FullList[n])] = OrderedKeys
        /\ IsSubsequence([n \in 1..Len(Returned) |-> EntryKey(Returned[n])], OrderedKeys)
        /\ Returned = SelectSeq(FullList,
              LAMBDA e : /\ QueryMatches(e, context.query)
                         /\ settings.limitToNonMarkdown => IsNonMarkdown(e))

\* Two documents have entries, a filter has taken some of them out, and
\* entries of a declared alias and of a basename are left.
C21_Witness ==
    /\ ResolveDone
    /\ Len(files) = 2
    /\ Len(ExpectedOf(1)) >= 1
    /\ Len(ExpectedOf(2)) >= 1
    /\ Len(Returned) >= 2
    /\ \E k \in 1..Len(Returned) : Returned[k].isAlias
    /\ \E k \in 1..Len(Returned) : ~Returned[k].isAlias
    /\ Len(Returned) < Len(FullList)

-----------------------------------------------------------------------------
(* The precedence of the singular and the plural keys (SpecResolve)        *)

\* The texts of the non-null members of a front-matter value.
MemberTexts(v) == {Template(v.ms[j]) : j \in {n \in 1..Len(v.ms) : v.ms[n].t # "null"}}

\* The non-null members of a front-matter value, in order.
MembersOf(v) == SelectSeq(v.ms, LAMBDA m : m.t # "null")

\* C22 as claimed: a document that declares both alias and aliases takes its
\* candidate aliases from alias only, and one that declares both redirect
\* and redirects takes its candidate targets from redirect only.
C22_SingularFirst ==
    \A i \in 1..Len(files) :
        LET fm == files[i].fm
        IN /\ (fm.alias # Absent /\ fm.aliases # Absent)
                  => AliasesOf(fm) = MembersOf(fm.alias)
           /\ (fm.redirect # Absent /\ fm.redirects # Absent)
                  => DeclaredTargets(i) = MembersOf(fm.redirect)

\* C22 amended: a non-empty alias value hides aliases, and a non-empty
\* redirects value hides redirect: the candidate aliases are the members of
\* alias, the candidate targets the members of redirects, and every returned
\* entry of the document is targeted by a member of redirects; the other key
\* of a pair is read when the first is absent or an empty scalar.
C22_AliasThenRedirects ==
    /\ \A i \in 1..Len(files) :
          LET fm == files[i].fm
          IN /\ Truthy(fm.alias) => AliasesOf(fm) = MembersOf(fm.alias)
             /\ (~Truthy(fm.alias) /\ Truthy(fm.aliases))
                    => AliasesOf(fm) = MembersOf(fm.aliases)
             /\ Truthy(fm.redirects) => DeclaredTargets(i) = MembersOf(fm.redirects)
             /\ (~Truthy(fm.redirects) /\ Truthy(fm.redirect))
                    => DeclaredTargets(i) = MembersOf(fm.redirect)
    /\ ResolveDone =>
          \A k \in 1..Len(Returned) : \A i \in 1..Len(files) :
              (Returned[k].originTFile = files[i].path /\ Truthy(files[i].fm.redirects))
                  => Returned[k].path \in MemberTexts(files[i].fm.redirects)

\* A document declares alias, aliases, redirect and redirects with different
\* members, and has entries.
C22_Witness ==
    /\ ResolveDone
    /\ \E i \in 1..Len(files) :
          /\ Truthy(files[i].fm.alias) /\ Truthy(files[i].fm.aliases)
          /\ Truthy(files[i].fm.redirect) /\ Truthy(files[i].fm.redirects)
          /\ MemberTexts(files[i].fm.redirect) \cap MemberTexts(files[i].fm.redirects) = {}
          /\ MemberTexts(files[i].fm.alias) \cap MemberTexts(files[i].fm.aliases) = {}
          /\ \E k \in 1..Len(Returned) :
                Returned[k].originTFile = files[i].path /\ Returned[k].isAlias

-----------------------------------------------------------------------------
(* Selection of a suggestion whose target is gone (SpecEditor)             *)

\* This step is a selection that wrote to the buffer.
SelectionWrote ==
    /\ lastEdit'.kind = "select"
    /\ lastEdit' # lastEdit \/ line' # line \/ cursor' # cursor

\* This step is a selection that returned without writing.
SelectionSkipped == lastCall' = "selectSuggestion" /\ lastCall # "selectSuggestion"

\* C25: selectSuggestion leaves the buffer and the cursor as they are when
\* there is no trigger context or the suggestion's declared target does not
\* resolve from its origin document in the vault as it is now: a selection
\* that writes inserts the link of a shown suggestion whose target resolves,
\* and a selection of a suggestion whose target does not resolve writes nothing.
C25_SelectionNoOp ==
    [][ /\ SelectionWrote =>
              /\ context.active
              /\ \E i \in 1..Len(suggestions.list) :
                    LET file == getFirstLinkpathDest(plugin.host,
                                    Str(suggestions.list[i].path),
                                    suggestions.list[i].originTFile)
                    IN /\ file.kind = "file"
                       /\ file.path \in Paths(files)
                       /\ lastEdit'.text = markdownLinkOf(file.path, suggestions.list[i])
        /\ SelectionSkipped =>
              /\ line' = line
              /\ cursor' = cursor
              /\ \/ ~context.active
                 \/ \E i \in 1..Len(suggestions.list) :
                       getFirstLinkpathDest(plugin.host, Str(suggestions.list[i].path),
                                            suggestions.list[i].originTFile).kind # "file" ]_vars

\* A suggestion was selected after its target had been deleted: the call
\* returned, the trigger and the query are still in the line.
C25_Witness ==
    /\ lastCall = "selectSuggestion"
    /\ suggestions.open
    /\ context.active
    /\ Len(line) >= Len(triggerString)
    /\ \E i \in 1..Len(suggestions.list) :
          suggestions.list[i].redirectTFile \notin Paths(files)

-----------------------------------------------------------------------------
(* AliasPromptModal: adding an alias to a document                         *)

\* Array.prototype.toString, which a template literal applies to an array:
\* the members' texts joined by commas, null and undefined printing as "".
RECURSIVE ArrayText(_)
ArrayText(ms) ==
    IF ms = <<>> THEN <<>>
    ELSE (IF ms[1].t \in {"null", "undef"} THEN <<>> ELSE ms[1].s)
            \o (IF Len(ms) > 1 THEN <<",">> \o ArrayText(Tail(ms)) ELSE <<>>)

\* A member of a sequence that is itself a sequence; s is the text a template
\* literal prints for it.
Arr(ms) == [t |-> "arr", s |-> ArrayText(ms)]

\* submitAlias: frontMatterAliases, from the attributes read and this.newAlias;
\* [attributes.alias] holds the value of the key as its one member.
frontMatterAliases(attributes, newAlias) ==
    (IF Truthy(attributes.alias)
     THEN <<IF attributes.alias.k = "seq" THEN Arr(attributes.alias.ms)
            ELSE attributes.alias.ms[1]>>
     ELSE <<>>)
        \o (IF Truthy(attributes.aliases)
            THEN (IF attributes.aliases.k = "seq" THEN attributes.aliases.ms
                  ELSE <<attributes.aliases.ms[1]>>)
            ELSE <<>>)
        \o <<newAlias>>

\* What a parser reads back from yaml.dump's text of a sequence: strings,
\* numbers, null and nested sequences as they were, undefined (where the dump
\* accepts it) as null.
YamlRoundTrip(ms) ==
    [j \in 1..Len(ms) |-> IF ms[j].t = "undef" THEN Null ELSE ms[j]]

\* submitAlias: the content written for the content read — the keys alias and
\* aliases deleted, aliases set to frontMatterAliases, the other keys and the
\* body as they were read.
newContent(fileParsed, newAlias) ==
    Content([fileParsed.attributes EXCEPT
                 !.alias = Absent,
                 !.aliases = Array(YamlRoundTrip(
                                 frontMatterAliases(fileParsed.attributes, newAlias)))],
            fileParsed.body)

\* The most submitAlias invocations of one prompt.
MaxSubmits == 2

\* A submitAlias invocation: where it stands, what it read, what it writes.
Call(pc, snap, pending) == [pc |-> pc, snap |-> snap, pending |-> pending]

\* The text field of the prompt: onChange stores the value in this.newAlias.
TypeAlias(value) ==
    /\ aliasPrompt.open
    /\ aliasPrompt.newAlias # Str(value)
    /\ aliasPrompt' = [aliasPrompt EXCEPT !.newAlias = Str(value)]
    /\ UNCHANGED <<files, settings, hostNonString, triggerString, line, cursor,
                   context, suggestions, modal, opened, lastEdit, lastCall, raised,
                   disk, statusBar, adapter, uiEvent, dispatch>>

\* Enter (while its handler is registered) or a click on Submit calls
\* submitAlias, which runs up to its await: the read of the file is requested.
SubmitAlias ==
    /\ aliasPrompt.open
    /\ Len(aliasPrompt.calls) < MaxSubmits
    /\ aliasPrompt' = [aliasPrompt EXCEPT
                          !.calls = Append(@, Call("reading", NoContent, NoContent))]
    /\ lastCall' = "submitAlias"
    /\ UNCHANGED <<files, settings, hostNonString, triggerString, line, cursor,
                   context, suggestions, modal, opened, lastEdit, raised,
                   disk, statusBar, adapter, uiEvent, dispatch>>

\* The adapter reads the file for invocation k: at some moment between the
\* request and the invocation's continuation, whatever has been written by then.
ReadFile(k) ==
    /\ k \in 1..Len(aliasPrompt.calls)
    /\ aliasPrompt.calls[k].pc = "reading"
    /\ aliasPrompt' = [aliasPrompt EXCEPT !.calls[k] = Call("read", disk, NoContent)]
    /\ UNCHANGED <<files, settings, hostNonString, triggerString, line, cursor,
                   context, suggestions, modal, opened, lastEdit, lastCall, raised,
                   disk, statusBar, adapter, uiEvent, dispatch>>

\* Invocation k continues after its await: it builds the new content from what
\* it read and this.newAlias, requests the write without awaiting it,
\* unregisters the Enter handler and closes the prompt.  With this.newAlias
\* undefined yaml.dump either raises or writes null, as the library decides.
ResumeSubmitAlias(k) ==
    /\ k \in 1..Len(aliasPrompt.calls)
    /\ aliasPrompt.calls[k].pc = "read"
    /\ \E dumps \in (IF aliasPrompt.newAlias = Undefined THEN BOOLEAN ELSE {TRUE}) :
          IF dumps
          THEN /\ aliasPrompt' =
                      [aliasPrompt EXCEPT
                          !.calls[k] = Call("writing", @.snap,
                                            newContent(@.snap, aliasPrompt.newAlias)),
                          !.registered = FALSE,
                          !.open = FALSE]
               /\ UNCHANGED raised
          ELSE /\ aliasPrompt' =
                      [aliasPrompt EXCEPT !.calls[k] = Call("done", @.snap, NoContent)]
               /\ raised' = TRUE
    /\ UNCHANGED <<files, settings, hostNonString, triggerString, line, cursor,
                   context, suggestions, modal, opened, lastEdit, lastCall,
                   disk, statusBar, adapter, uiEvent, dispatch>>

\* The adapter carries out the write invocation k requested.
WriteFile(k) ==
    /\ k \in 1..Len(aliasPrompt.calls)
    /\ aliasPrompt.calls[k].pc = "writing"
    /\ disk' = aliasPrompt.calls[k].pending
    /\ aliasPrompt' = [aliasPrompt EXCEPT !.calls[k].pc = "done"]
    /\ UNCHANGED <<files, settings, hostNonString, triggerString, line, cursor,
                   context, suggestions, modal, opened, lastEdit, lastCall, raised,
                   statusBar, adapter, uiEvent, dispatch>>

\* The metadata cache follows the file on disk.
CacheFollows ==
    /\ \E i \in 1..Len(files) :
          /\ files[i].path = aliasPrompt.file
          /\ files[i].fm # disk.attributes
          /\ files' = [files EXCEPT ![i].fm = disk.attributes]
    /\ UNCHANGED <<settings, hostNonString, triggerString, line, cursor,
                   context, suggestions, modal, opened, lastEdit, lastCall, raised,
                   aliasPrompt, disk, statusBar, adapter, uiEvent, dispatch>>

\* The front matters of the document an alias is added to; every one names
\* the image as a target, which is how the prompt came to be offered.
AliasFrontMatters ==
    { FM(Absent, Absent, Scalar(Str(pX)), Absent),
      FM(Scalar(Str(<<"C", "a">>)), Absent, Scalar(Str(pX)), Absent),
      FM(Absent, Array(<<Str(<<"C", "a">>), Str(<<"b">>)>>), Absent, Array(<<Str(pX)>>)),
      FM(Absent, Scalar(Str(<<"b">>)), Scalar(Str(pX)), Absent),
      FM(Scalar(Str(<<"C", "a">>)), Array(<<Str(<<"b">>)>>), Scalar(Str(pX)), Absent),
      FM(Scalar(Str(<<>>)), Array(<<Str(<<"b">>), Null>>), Scalar(Str(pX)), Absent),
      FM(Array(<<Str(<<"C", "a">>), Str(<<"b">>)>>), Absent, Scalar(Str(pX)), Absent) }

\* The values typed into the prompt's text field.
AliasEdits == {<<"n">>, <<>>}

\* SpecAlias: the prompt has been opened for a document A.md that names the
\* image; the user types, submits (more than once, if quick enough), and the
\* reads, continuations, writes and cache updates happen in every order.
InitAlias ==
    /\ \E fm \in AliasFrontMatters :
          /\ files = <<[path |-> pA, fm |-> fm], [path |-> pX, fm |-> NoFrontMatter]>>
          /\ disk = Content(fm, <<"t", "e", "x", "t">>)
    /\ settings = DEFAULT_SETTINGS
    /\ hostNonString = "null"
    /\ triggerString = settings.triggerString
    /\ line = <<>>
    /\ cursor = 0
    /\ context = NoTrigger
    /\ suggestions = NoSuggestions
    /\ modal = NoModal
    /\ opened = <<>>
    /\ lastEdit = NoEdit
    /\ lastCall = "none"
    /\ raised = FALSE
    /\ aliasPrompt = [open |-> TRUE, file |-> pA, newAlias |-> Undefined,
                      registered |-> TRUE, calls |-> <<>>]
    /\ statusBar = NoStatusBar
    /\ adapter = MobileAdapter
    /\ uiEvent = NoEvent
    /\ dispatch = NoDispatch

NextAlias ==
    \/ \E value \in AliasEdits : TypeAlias(value)
    \/ SubmitAlias
    \/ \E k \in 1..MaxSubmits : ReadFile(k)
    \/ \E k \in 1..MaxSubmits : ResumeSubmitAlias(k)
    \/ \E k \in 1..MaxSubmits : WriteFile(k)
    \/ CacheFollows

SpecAlias == InitAlias /\ [][NextAlias]_vars

-----------------------------------------------------------------------------
(* Properties of the alias prompt (SpecAlias)                              *)

\* The alias names getRedirectFiles produces for the prompt's document in a vault.
ResolverAliasNames(vault) ==
    LET list == getRedirectFiles([settings |-> settings,
                                  host |-> [vault |-> vault, nonString |-> hostNonString]],
                                 vault, settings.limitToRedirectedFiles, NoFilter).list
    IN {list[j].alias : j \in {n \in 1..Len(list) : list[n].originTFile = aliasPrompt.file}}

\* The front matter the metadata cache holds for the prompt's document.
PromptFrontMatter(vault) == FrontMatterOf(vault, aliasPrompt.file)

\* C23: adding an alias never loses an alias: when the metadata cache takes
\* up the file submitAlias wrote with a new alias N, the alias names the
\* resolver produces for the document are those it produced before and N,
\* the keys redirect and redirects are as before, and a write leaves the
\* body as it was.
C23_AliasNeverLost ==
    [][ /\ (files' # files /\ aliasPrompt.newAlias.t = "str") =>
              /\ ResolverAliasNames(files) \cup {aliasPrompt.newAlias.s}
                    \subseteq ResolverAliasNames(files')
              /\ PromptFrontMatter(files').redirect = PromptFrontMatter(files).redirect
              /\ PromptFrontMatter(files').redirects = PromptFrontMatter(files).redirects
        /\ (disk' # disk) => disk'.body = disk.body ]_vars

\* How often the member m occurs in the sequence ms.
CountOf(m, ms) == Cardinality({j \in 1..Len(ms) : ms[j] = m})

\* Every submitAlias invocation of the prompt has run to its end.
PromptSettled ==
    /\ ~aliasPrompt.open
    /\ aliasPrompt.calls # <<>>
    /\ \A k \in 1..Len(aliasPrompt.calls) : aliasPrompt.calls[k].pc = "done"

\* C24: however often submitAlias is invoked for one prompt, and however its
\* reads and writes interleave, the file ends up with the new alias appended
\* exactly once (no document of AliasFrontMatters holds an alias of AliasEdits
\* beforehand).
C24_SingleAppend ==
    (PromptSettled /\ aliasPrompt.newAlias.t = "str") =>
        CountOf(aliasPrompt.newAlias, disk.attributes.aliases.ms) = 1

-----------------------------------------------------------------------------
(* The drop mode, the editor-drop handler, the file menu and               *)
(* handleFilesWithModal                                                    *)

\* A file two folders below the vault's root.
pD == <<"a", "/", "b", "/", "y", ".", "p", "n", "g">>

\* FileSystemAdapters: getBasePath() and the platform's path separator.
PosixAdapter == [desktop |-> TRUE, basePath |-> <<"/", "v">>, sep |-> "/"]
WindowsAdapter == [desktop |-> TRUE, basePath |-> <<"C", ":", "\\", "v">>, sep |-> "\\"]

\* The path the operating system gives a dropped file of the vault.
OsPath(a, path) ==
    a.basePath \o <<a.sep>> \o [i \in 1..Len(path) |-> IF path[i] = "/" THEN a.sep ELSE path[i]]

\* A file handed to handleFilesWithModal: a TFile (path in the vault) or a
\* dropped File (path of the operating system).
TFileGiven(path) == [dom |-> FALSE, path |-> path]
FileGiven(path) == [dom |-> TRUE, path |-> path]

\* String.prototype.replace(w, r) with a string pattern: the first occurrence.
replaceFirst(s, w, r) ==
    LET i == indexOf(s, w)
    IN IF i < 0 THEN s ELSE SubSeq(s, 1, i) \o r \o SubSeq(s, i + Len(w) + 1, Len(s))

\* .replace(/^[\/\\]/, "")
stripLeadingSeparator(s) ==
    IF s # <<>> /\ s[1] \in {"/", "\\"} THEN Tail(s) ELSE s

\* handleFilesWithModal: filePath of a given file.
filePathOf(a, f) ==
    IF f.dom
    THEN replaceFirst(stripLeadingSeparator(replaceFirst(f.path, a.basePath, <<>>)),
                      <<"\\">>, <<"/">>)
    ELSE f.path

\* redirectFiles.filter(rf => rf.redirectTFile.path === filePath)
relevantRedirectFiles(redirectFiles, filePath) ==
    SelectSeq(redirectFiles, LAMBDA rf : rf.redirectTFile = filePath)

\* [...new Set(relevantRedirectFiles.map(f => f.originTFile.path))]
relevantRedirectFilesChunked(relevant) ==
    {relevant[j].originTFile : j \in 1..Len(relevant)}

\* What handleFilesWithModal does: an openFile, an AliasPromptModal or a
\* FilePathModal.
Effect(kind, file, fs) == [kind |-> kind, file |-> file, files |-> fs]

\* The body of handleFilesWithModal's loop for one file, n files being given:
\* the action itself, a FilePathModal over the relevant entries, or nothing.
FileEffects(relevant, n, action, limitToNonMarkdown) ==
    IF n = 1 /\ Cardinality(relevantRedirectFilesChunked(relevant)) = 1
    THEN <<Effect(IF action = "OpenFile" THEN "openFile" ELSE "aliasPrompt",
                  relevant[1].originTFile, <<>>)>>
    ELSE IF Cardinality(relevantRedirectFilesChunked(relevant)) >= 1
    THEN <<Effect("modal", <<>>, FilePathModalFiles(limitToNonMarkdown, relevant))>>
    ELSE <<>>

\* handleFilesWithModal(plugin, app, files, ctrlKey, action): what it does for
\* each given file, or raised when getRedirectFiles raises.
handleFilesWithModal(pl, a, given, action) ==
    LET r == getRedirectFiles(pl, pl.host.vault, pl.settings.limitToRedirectedFiles,
                              NoFilter)
    IN [raised |-> r.raised,
        done |-> IF r.raised THEN <<>>
                 ELSE [i \in 1..Len(given) |->
                          FileEffects(relevantRedirectFiles(r.list, filePathOf(a, given[i])),
                                      Len(given), action, pl.settings.limitToNonMarkdown)]]

\* The last effect of a kind among those of a call, if there is one.
LastEffect(done, kind) ==
    LET all == flat(done)
        hits == {j \in 1..Len(all) : all[j].kind = kind}
    IN IF hits = {} THEN Effect("none", <<>>, <<>>)
       ELSE all[CHOOSE j \in hits : \A l \in hits : l <= j]

\* A handler calls handleFilesWithModal: the call is recorded, and what it
\* opened is open afterwards.
HandleFilesWithModal(given, action) ==
    \E r \in {handleFilesWithModal(plugin, adapter, given, action)} :
        /\ dispatch' = [called |-> TRUE, given |-> given, action |-> action,
                        done |-> r.done]
        /\ raised' = r.raised
        /\ opened' = IF LastEffect(r.done, "openFile").kind = "openFile"
                     THEN LastEffect(r.done, "openFile").file ELSE opened
        /\ aliasPrompt' = IF LastEffect(r.done, "aliasPrompt").kind = "aliasPrompt"
                          THEN [open |-> TRUE,
                                file |-> LastEffect(r.done, "aliasPrompt").file,
                                newAlias |-> Undefined, registered |-> TRUE,
                                calls |-> <<>>]
                          ELSE aliasPrompt
        /\ modal' = IF LastEffect(r.done, "modal").kind = "modal"
                    THEN [open |-> TRUE, files |-> LastEffect(r.done, "modal").files]
                    ELSE modal

\* The editor-drop handler lets every mode handle the drop.
DropHandledAnyMode(defaultPrevented, mode, a) == ~defaultPrevented /\ a.desktop

\* The editor-drop handler goes on to preventDefault and handleFilesWithModal:
\* the event not prevented already, the mode RedirectOpen, a FileSystemAdapter.
DropHandled(defaultPrevented, mode, a) ==
    /\ ~defaultPrevented
    /\ mode = Mode.RedirectOpen
    /\ a.desktop

\* The most files one drop carries.
MaxDropped == 2

\* workspace.on("editor-drop"): files are dropped onto the editor.
EditorDrop(fs, defaultPrevented) ==
    /\ ~modal.open
    /\ ~aliasPrompt.open
    /\ ~raised
    /\ IF DropHandled(defaultPrevented, settings.mode, adapter)
       THEN /\ uiEvent' = Event("drop", fs, defaultPrevented, TRUE, ~uiEvent.tick)
            /\ HandleFilesWithModal(
                   SelectSeq(fs, LAMBDA f : OccursAt(f.path, adapter.basePath, 0)),
                   "OpenFile")
            /\ lastCall' = "editorDrop"
       ELSE /\ uiEvent' = Event("drop", fs, defaultPrevented, FALSE, ~uiEvent.tick)
            /\ dispatch' = NoDispatch
            /\ UNCHANGED <<raised, opened, aliasPrompt, modal, lastCall>>
    /\ UNCHANGED <<files, settings, hostNonString, triggerString, line, cursor,
                   context, suggestions, lastEdit, disk, statusBar, adapter>>

\* workspace.on("file-menu"): one of the two items the plugin adds to the
\* menu of a file is clicked.
FileMenuClick(path, action) ==
    /\ ~modal.open
    /\ ~aliasPrompt.open
    /\ ~raised
    /\ path \in Paths(files)
    /\ ~settings.limitToNonMarkdown \/ FileExtension(path) # <<"m", "d">>
    /\ uiEvent' = Event("menu", <<TFileGiven(path)>>, FALSE, FALSE, ~uiEvent.tick)
    /\ HandleFilesWithModal(<<TFileGiven(path)>>, action)
    /\ lastCall' = "fileMenu"
    /\ UNCHANGED <<files, settings, hostNonString, triggerString, line, cursor,
                   context, suggestions, lastEdit, disk, statusBar, adapter>>

\* The mode a toggle leaves, were it RedirectOpen whatever the mode was.
ToggledModeSticky(mode) == Mode.RedirectOpen

\* this.settings.mode === Mode.Standard ? Mode.RedirectOpen : Mode.Standard
ToggledMode(mode) ==
    IF mode = Mode.Standard THEN Mode.RedirectOpen ELSE Mode.Standard

\* A click on the status bar item, or the command "Change mode"; both exist
\* on desktop only.  The mode is toggled, shown and saved.
ToggleMode ==
    /\ adapter.desktop
    /\ ~raised
    /\ settings' = [settings EXCEPT !.mode = ToggledMode(@)]
    /\ statusBar' = [shown |-> TRUE, text |-> StatusText(settings'.mode)]
    /\ uiEvent' = Event("toggle", <<>>, FALSE, FALSE, ~uiEvent.tick)
    /\ dispatch' = NoDispatch
    /\ lastCall' = "toggleMode"
    /\ UNCHANGED <<files, hostNonString, triggerString, line, cursor, context,
                   suggestions, modal, opened, lastEdit, raised, aliasPrompt, disk,
                   adapter>>

\* The alias prompt is dismissed.
ClosePrompt ==
    /\ aliasPrompt.open
    /\ aliasPrompt' = NoPrompt
    /\ UNCHANGED <<files, settings, hostNonString, triggerString, line, cursor,
                   context, suggestions, modal, opened, lastEdit, lastCall, raised,
                   disk, statusBar, adapter, uiEvent, dispatch>>

\* Two documents name the image, one of them also the file two folders down
\* and the other document.
DropVault ==
    <<[path |-> pA, fm |-> FM(Absent, Absent, Absent, Array(<<Str(pX), Str(pD), Str(p7)>>))],
      [path |-> p7, fm |-> FM(Absent, Absent, Scalar(Str(pX)), Absent)],
      [path |-> pX, fm |-> NoFrontMatter],
      [path |-> pD, fm |-> NoFrontMatter]>>

\* The files a drop carries: up to MaxDropped of the vault's files and a file
\* outside the vault, under the names the operating system gives them.
DroppedFiles(a) ==
    LET one == {FileGiven(OsPath(a, p)) : p \in {pX, pD, p7}}
                   \cup {FileGiven(<<"/", "o", "/", "x", ".", "p", "n", "g">>)}
    IN UNION {[1..n -> one] : n \in 1..MaxDropped}

\* SpecDrop: the plugin is loaded with a saved mode on one of the adapters;
\* the mode is toggled, files are dropped, the file menu is used, and what
\* was opened is closed again.
InitDrop ==
    /\ files = DropVault
    /\ settings \in {[DEFAULT_SETTINGS EXCEPT !.mode = m] :
                        m \in {Mode.Standard, Mode.RedirectOpen}}
    /\ hostNonString = "null"
    /\ triggerString = settings.triggerString
    /\ line = <<>>
    /\ cursor = 0
    /\ context = NoTrigger
    /\ suggestions = NoSuggestions
    /\ modal = NoModal
    /\ opened = <<>>
    /\ lastEdit = NoEdit
    /\ lastCall = "none"
    /\ raised = FALSE
    /\ aliasPrompt = NoPrompt
    /\ disk = NoContent
    /\ adapter \in {PosixAdapter, WindowsAdapter, MobileAdapter}
    /\ statusBar = OnloadStatusBar(adapter, settings.mode)
    /\ uiEvent = NoEvent
    /\ dispatch = NoDispatch

NextDrop ==
    \/ ToggleMode
    \/ \E fs \in DroppedFiles(adapter), defaultPrevented \in BOOLEAN :
          EditorDrop(fs, defaultPrevented)
    \/ \E path \in Paths(files), action \in {"OpenFile", "AddAliasToFile"} :
          FileMenuClick(path, action)
    \/ CloseModal
    \/ ClosePrompt

SpecDrop == InitDrop /\ [][NextDrop]_vars

-----------------------------------------------------------------------------
(* Properties of the drop mode and of handleFilesWithModal (SpecDrop)      *)

\* This step is the handling of a new event of the kind.
EventStep(kind) == uiEvent'.tick # uiEvent.tick /\ uiEvent'.kind = kind

\* The mode that is not the given one.
OtherMode(mode) ==
    IF mode = <<"O", "p", "e", "n">> THEN <<"S", "t", "a", "n", "d", "a", "r", "d">>
    ELSE <<"O", "p", "e", "n">>

\* The files of the event that lie under the vault's base path.
UnderBasePath(fs) ==
    SelectSeq(fs, LAMBDA f : SubSeq(f.path, 1, Len(adapter.basePath)) = adapter.basePath)

\* C26: settings.mode is always Standard or Open; a click on the status bar
\* or the command "Change mode" flips it to the other value (so two of them
\* restore it) and leaves the status bar reading "Redirect drop: " and the
\* mode; and an editor-drop event is prevented and handed to
\* handleFilesWithModal (action OpenFile, the dropped files under the base
\* path) exactly when the mode is Open, the event did not arrive prevented
\* and the adapter is a desktop file-system adapter — otherwise the handler
\* changes nothing.
C26_DropMode ==
    [][ /\ settings'.mode \in {<<"S", "t", "a", "n", "d", "a", "r", "d">>, <<"O", "p", "e", "n">>}
        /\ EventStep("toggle") =>
              /\ settings'.mode = OtherMode(settings.mode)
              /\ OtherMode(settings'.mode) = settings.mode
              /\ statusBar'.shown
              /\ statusBar'.text =
                    <<"R", "e", "d", "i", "r", "e", "c", "t", " ", "d", "r", "o", "p", ":", " ">>
                        \o settings'.mode
        /\ EventStep("drop") =>
              LET handles == /\ settings.mode = <<"O", "p", "e", "n">>
                             /\ ~uiEvent'.defaultPrevented
                             /\ adapter.desktop
              IN /\ uiEvent'.prevented <=> handles
                 /\ handles => /\ dispatch'.called
                               /\ dispatch'.action = "OpenFile"
                               /\ dispatch'.given = UnderBasePath(uiEvent'.files)
                 /\ ~handles => /\ ~dispatch'.called
                                /\ UNCHANGED <<files, settings, modal, opened, aliasPrompt,
                                               disk, statusBar, raised, line, cursor>> ]_vars

\* After an earlier event (the mark is back where it started), a drop in mode
\* Open on desktop was prevented and handled, and opened the one origin of the
\* dropped image; the status bar reads "Redirect drop: Open".
C26_Witness ==
    /\ uiEvent.kind = "drop"
    /\ ~uiEvent.tick
    /\ uiEvent.prevented
    /\ dispatch.called
    /\ dispatch.done # <<>>
    /\ opened = pA
    /\ settings.mode = Mode.RedirectOpen
    /\ statusBar.text = StatusText(Mode.RedirectOpen)

\* The path of a given file relative to the vault's root, with "/" between
\* its parts.
VaultRelative(f) ==
    IF ~f.dom THEN f.path
    ELSE LET rest == SubSeq(f.path, Len(adapter.basePath) + 2, Len(f.path))
         IN [i \in 1..Len(rest) |-> IF rest[i] = adapter.sep THEN "/" ELSE rest[i]]

\* The resolver's entries whose resolved target is the given file.
EntriesFor(f) ==
    LET list == getRedirectFiles(plugin, files, settings.limitToRedirectedFiles,
                                 NoFilter).list
    IN SelectSeq(list, LAMBDA e : e.redirectTFile = VaultRelative(f))

\* O: the distinct origin documents of those entries.
OriginsFor(f) == {EntriesFor(f)[j].originTFile : j \in 1..Len(EntriesFor(f))}

\* What the dispatch rule asks of the effects eff for the i-th of the given files.
DispatchRule(given, action, i, eff) ==
    LET O == OriginsFor(given[i])
    IN IF Len(given) = 1 /\ Cardinality(O) = 1
       THEN /\ Len(eff) = 1
            /\ eff[1].kind = (IF action = "OpenFile" THEN "openFile" ELSE "aliasPrompt")
            /\ eff[1].file \in O
       ELSE IF Cardinality(O) >= 1
       THEN /\ Len(eff) = 1
            /\ eff[1].kind = "modal"
            /\ \A j \in 1..Len(eff[1].files) :
                  \E l \in 1..Len(EntriesFor(given[i])) :
                      eff[1].files[j] = EntriesFor(given[i])[l]
       ELSE eff = <<>>

\* C27: handleFilesWithModal, for each given file with O the distinct origin
\* documents of the resolver's entries whose target is the file's
\* vault-relative path: applies the action to the single origin iff one file
\* was given and O has one member; otherwise opens a chooser restricted to
\* those entries iff O has a member; and does nothing when O is empty.
C27_Dispatch ==
    [][ (uiEvent'.tick # uiEvent.tick /\ dispatch'.called /\ ~raised') =>
           /\ Len(dispatch'.done) = Len(dispatch'.given)
           /\ \A i \in 1..Len(dispatch'.given) :
                 DispatchRule(dispatch'.given, dispatch'.action, i, dispatch'.done[i]) ]_vars

====
